---------------------------- MODULE Spec2Model ----------------------------
(***************************************************************************)
(* Dungeon-level generator of Angband (level/generate.c, gen-util.c,       *)
(* room.c, cavern.c, labyrinth.c, town.c) as state machines.               *)
(*                                                                         *)
(* The module holds several specifications over one pool of variables.     *)
(* Each specification drives one group of variables and leaves the other   *)
(* groups at their idle values:                                            *)
(*   SpecGen    - the director loop of cave_generate                       *)
(*   SpecRooms  - room_build on the block map of one level attempt         *)
(*   SpecBuild  - room_build with the room builders acting on the cells    *)
(*   SpecRepair - the connectivity repair of the default and cavern levels *)
(*   SpecLevel  - stairs, doors, rubble, traps and the player's spot on a  *)
(*                default, cavern or labyrinth level, built twice from the *)
(*                same random draws                                        *)
(***************************************************************************)
EXTENDS Integers, Sequences, FiniteSets, TLC

VARIABLES
    \* ---- director (cave_generate) ----
    depth,               \* p->depth, copied to c->depth
    tries,               \* loop counter of cave_generate
    error,               \* const char *error ("NULL" is the null pointer)
    character_dungeon,   \* global flag: the dungeon is ready
    gen_pc,              \* position inside cave_generate
    perc,                \* randint0(100) roll of the attempt
    profile_i,           \* index i of the cave-profile loop
    built_by,            \* name of the profile whose builder produced the level
    overflows            \* history: number of attempts that ended with error set

genVars == <<depth, tries, error, character_dungeon, gen_pc, perc, profile_i,
             built_by, overflows>>

VARIABLES
    \* ---- room placement (default_gen / room_build) ----
    c_depth,             \* c->depth of the level being built
    room_map,            \* dun->room_map: which blocks are used
    crowded,             \* dun->crowded
    cent_n,              \* dun->cent_n: number of room centres saved
    reserved_cnt,        \* history: how many rooms reserved each block
    crowded_built,       \* history: crowded rooms built in this attempt
    last_call            \* history: the last room_build call and its outcome

roomVars == <<c_depth, room_map, crowded, cent_n, reserved_cnt, crowded_built,
              last_call>>

VARIABLES
    \* ---- the cave (struct cave) ----
    c_height,            \* c->height
    c_width,             \* c->width
    feat,                \* c->feat[y][x]
    info                 \* c->info[y][x], as the set of flags that are set

caveVars == <<c_height, c_width, feat, info>>

VARIABLES
    \* ---- history of the last room builder call ----
    feat_before,         \* c->feat when the builder was called
    info_before          \* c->info when the builder was called

buildVars == <<feat_before, info_before>>

VARIABLES
    \* ---- connectivity repair (build_colors, join_regions) ----
    colors,              \* int colors[]: region label of each cell, 0 = none
    counts,              \* int counts[]: number of cells of each label
    regions_before,      \* history: number of regions before the last bridge
    bridges              \* history: number of corridors carved by the pass

repairVars == <<colors, counts, regions_before, bridges>>

VARIABLES
    \* ---- the builder of one level and the player ----
    l_profile,           \* which builder runs: default, cavern, labyrinth
    l_input,             \* the layout the rooms, the cavern or the maze gave
    l_pc,                \* position inside the builder
    rng,                 \* the random draws to come
    birth_no_stairs,     \* OPT(birth_no_stairs)
    create_down_stair,   \* p->create_down_stair
    create_up_stair,     \* p->create_up_stair
    only_up,             \* is_quest(c->depth) || c->depth >= MAX_DEPTH - 1
    p_pos,               \* <<p->py, p->px>> once placed, <<>> before
    todo,                \* remaining iterations of the running placement loop
    need_walls,          \* alloc_stairs: int walls, counted down
    came_down,           \* history: create_down_stair when the builder began
    came_up,             \* history: create_up_stair when the builder began
    rng_start,           \* history: rng when the builder began
    feat_start,          \* history: c->feat when the content steps began
    run,                 \* history: 1 in the first build, 2 in the second
    first                \* history: the level the first build ended with

levelVars == <<l_profile, l_input, l_pc, rng, birth_no_stairs,
               create_down_stair, create_up_stair, only_up, p_pos, todo,
               need_walls, came_down, came_up, rng_start, feat_start, run,
               first>>

VARIABLES
    \* ---- the cave across the builders of one generation attempt ----
    at_clear,            \* history: <<c->height, c->width>> at the last cave_clear
    failed,              \* history: builders that returned FALSE since then
    built_in             \* history: what the builder that returned TRUE drew

dirVars == <<at_clear, failed, built_in>>

VARIABLES
    \* ---- the tunnels of default_gen (build_tunnel) ----
    t_pc,                \* position inside the tunnelling of the level
    cent,                \* dun->cent[0 .. cent_n - 1], as <<y, x>> pairs
    cent_i,              \* index i of "Connect all the rooms together"
    prev_yx,             \* <<y, x>> of default_gen: the previous room
    row1, col1,          \* build_tunnel: the current location
    row2, col2,          \* build_tunnel: the target
    row_dir, col_dir,    \* build_tunnel: the direction
    start_row, start_col,\* build_tunnel: the starting location
    main_loop_count,     \* build_tunnel: main_loop_count
    door_flag,           \* build_tunnel: door_flag
    tunn,                \* dun->tunn[0 .. tunn_n - 1]
    wall,                \* dun->wall[0 .. wall_n - 1]
    door,                \* dun->door[0 .. door_n - 1]
    turns,               \* the directions the random rolls will give
    pierced              \* history: every piercing accepted on this level

tunVars == <<t_pc, cent, cent_i, prev_yx, row1, col1, row2, col2, row_dir,
             col_dir, start_row, start_col, main_loop_count, door_flag, tunn,
             wall, door, turns, pierced>>

VARIABLES
    \* ---- history of the last vault stamped ----
    stamp                \* [data, y0, x0] of the last build_vault call

vaultVars == <<stamp>>

VARIABLES
    \* ---- the town: town_gen and town_gen_hack ----
    w_pc,                \* where the town builder is
    Rand_quick,          \* the "simple" generator is the one in use
    Rand_value,          \* the state of the simple generator
    Rand_state,          \* the state of the "complex" (main) generator
    seed_town,           \* the town seed
    rooms_left,          \* rooms[]: the remaining stores
    n_left,              \* n: the stores that remain
    slot,                \* the place y * n_cols + x of the store loops
    p_yx,                \* <<p->py, p->px>>, <<>> before player_place
    stores,              \* history: the build_store calls of this visit
    stair,               \* history: the cell of the down stairs
    entry_state,         \* history: Rand_state when town_gen was entered
    visit,               \* the generations of the town so far
    town_before          \* history: the town of the visit before

townVars == <<w_pc, Rand_quick, Rand_value, Rand_state, seed_town, rooms_left,
              n_left, slot, p_yx, stores, stair, entry_state, visit,
              town_before>>

VARIABLES
    \* ---- cavern_gen ----
    cv_tries,            \* tries of the loop of cavern_gen
    openc                \* openc: what count_open_squares gave last

cavVars == <<cv_tries, openc>>

VARIABLES
    \* ---- labyrinth_gen: the cells and the wall loop ----
    m_pc,                \* where labyrinth_gen is
    lab_h,               \* h: the height of the labyrinth part
    lab_w,               \* w: the width of the labyrinth part
    m_sets,              \* sets[]
    lab_i,               \* i of the wall loop
    walls_left,          \* the adjoining walls among walls[i .. n - 1]
    others_left,         \* how many other entries walls[i .. n - 1] has
    knocked              \* history: the walls knocked down

mazeVars == <<m_pc, lab_h, lab_w, m_sets, lab_i, walls_left, others_left,
              knocked>>

VARIABLES
    \* ---- build_greater_vault ----
    gv_pc,               \* where build_greater_vault is
    gv_i,                \* i of its loop
    numerator,           \* numerator
    denominator,         \* denominator
    gv_overflow,         \* a product has left the range of int
    gv_roll,             \* history: what randint0(denominator) gave
    gv_passed,           \* history: the depth check was passed
    gv_result            \* what build_greater_vault returned

gvVars == <<gv_pc, gv_i, numerator, denominator, gv_overflow, gv_roll,
            gv_passed, gv_result>>

VARIABLES
    \* ---- the junction doors of default_gen ----
    jct_pc,              \* "idle" up to the end of the door loop, "done"
    jct_i,               \* i of "for (i = 0; i < dun->door_n; i++)"
    jct_k,               \* which of the four try_door calls comes next
    jct_tried,           \* history: the cells try_door was called with
    jct_doors            \* history: the cells a door was placed on, each
                         \* with what held there before the call

doorVars == <<jct_pc, jct_i, jct_k, jct_tried, jct_doors>>

VARIABLES
    \* ---- the room loop of default_gen ----
    pl_pc,               \* "rooms": at the test of while (built < num_rooms),
                         \* "profiles": in the loop over the room profiles,
                         \* "quit": quit_fmt was called, "done"
    blocks_tried,        \* blocks_tried[by][bx]
    built,               \* built
    num_rooms,           \* num_rooms
    pl_b,                \* <<by, bx>> of the block being tried
    pl_key,              \* key
    pl_rarity,           \* rarity
    pl_i,                \* i of the loop over the room profiles
    pl_iter,             \* history: rounds of the while loop begun
    pl_calls             \* history: the room_build calls of this round,
                         \* [i, result] each

placeVars == <<pl_pc, blocks_tried, built, num_rooms, pl_b, pl_key,
               pl_rarity, pl_i, pl_iter, pl_calls>>

VARIABLES
    \* ---- the scratch buffers of the generators ----
    mem_pc,              \* where cave_generate and its builder are
    mem_depth,           \* c->depth
    mem_perc,            \* perc of cave_generate
    mem_tries,           \* tries of cave_generate
    mem_error,           \* error of cave_generate is not NULL
    mem_times,           \* times of cavern_gen
    mem_cv,              \* tries of cavern_gen
    heap                 \* the buffers: live (allocated and not freed),
                         \* and as history the C_ZNEW and FREE calls counted
                         \* per buffer and the misuses seen

memVars == <<mem_pc, mem_depth, mem_perc, mem_tries, mem_error, mem_times,
             mem_cv, heap>>

VARIABLES
    \* ---- alloc_objects and alloc_object, search by search ----
    ao_pc,               \* "idle", "call", "search", "after", "done"
    ao_set,              \* int set
    ao_num,              \* alloc_objects: int num
    ao_k,                \* alloc_objects: int k
    ao_l,                \* alloc_objects: int l
    ao_tries,            \* alloc_object: int tries
    ao_yx,               \* alloc_object: y, x as find_empty left them
    ao_log               \* history: one record for every alloc_object call

allocVars == <<ao_pc, ao_set, ao_num, ao_k, ao_l, ao_tries, ao_yx, ao_log>>

VARIABLES
    \* ---- set_pit_type, build_pit and build_nest ----
    pt_pc,               \* "idle", "scan", "pick", "sort", "select", "place",
                         \* "done"
    pt_type,             \* set_pit_type: int type (1 pit, 2 nest)
    pt_depth,            \* c->depth
    pt_centre,           \* y0, x0
    pit_info,            \* pit_info[], indexed from 0
    pt_i,                \* the loop counter at work
    pit_idx,             \* set_pit_type: int pit_idx
    pit_dist,            \* set_pit_type: int pit_dist
    pit_type,            \* the index i of pit_type = &pit_info[i], or "NULL"
    get_mon_num_hook,    \* "NULL" or "mon_pit_hook"
    pt_scan,             \* history: the pits set_pit_type looked at
    pt_sample,           \* history: what[] as get_mon_num filled it
    what,                \* what[]
    pt_mon,              \* history: the place_new_monster calls
    pt_ret               \* what the builder returned, "none" before

pitVars == <<pt_pc, pt_type, pt_depth, pt_centre, pit_info, pt_i, pit_idx,
             pit_dist, pit_type, get_mon_num_hook, pt_scan, pt_sample, what,
             pt_mon, pt_ret>>

lateVars == <<allocVars, pitVars>>

moreVars == <<doorVars, placeVars, memVars, lateVars>>

\* the groups of the later specifications
extVars == <<dirVars, tunVars, vaultVars, townVars, cavVars, mazeVars,
             gvVars, moreVars>>

vars == <<genVars, roomVars, caveVars, buildVars, repairVars, levelVars,
          extVars>>

notGen == <<roomVars, caveVars, buildVars, repairVars, levelVars, extVars>>
notRoom == <<genVars, caveVars, buildVars, repairVars, levelVars, extVars>>
notBuild == <<moreVars, genVars, repairVars, levelVars, dirVars, tunVars, townVars,
              cavVars, mazeVars, gvVars>>

\* idle values of the groups a specification does not drive
GenIdle ==
    /\ depth = 0 /\ tries = 0 /\ error = "NULL" /\ character_dungeon = FALSE
    /\ gen_pc = "idle" /\ perc = 0 /\ profile_i = 0 /\ built_by = "none"
    /\ overflows = 0

RoomIdle ==
    /\ c_depth = 0 /\ room_map = <<>> /\ crowded = FALSE /\ cent_n = 0
    /\ reserved_cnt = <<>> /\ crowded_built = 0 /\ last_call = <<>>

CaveIdle ==
    /\ c_height = 0 /\ c_width = 0 /\ feat = <<>> /\ info = <<>>

BuildIdle ==
    /\ feat_before = <<>> /\ info_before = <<>>

RepairIdle ==
    /\ colors = <<>> /\ counts = <<>> /\ regions_before = 0 /\ bridges = 0

\* the level variables but the builder's name and position
levelRest == <<l_input, rng, birth_no_stairs, create_down_stair,
               create_up_stair, only_up, p_pos, todo, need_walls, came_down,
               came_up, rng_start, feat_start, run, first>>

LevelRestIdle ==
    /\ l_input = <<>> /\ rng = <<>> /\ birth_no_stairs = FALSE
    /\ create_down_stair = FALSE /\ create_up_stair = FALSE
    /\ only_up = FALSE /\ p_pos = <<>> /\ todo = 0 /\ need_walls = 0
    /\ came_down = FALSE /\ came_up = FALSE /\ rng_start = <<>>
    /\ feat_start = <<>> /\ run = 0 /\ first = <<>>

LevelIdle == l_profile = "none" /\ l_pc = "idle" /\ LevelRestIdle

DirIdle == at_clear = <<>> /\ failed = 0 /\ built_in = <<>>

TunIdle ==
    /\ t_pc = "idle" /\ cent = <<>> /\ cent_i = 0 /\ prev_yx = <<>>
    /\ row1 = 0 /\ col1 = 0 /\ row2 = 0 /\ col2 = 0
    /\ row_dir = 0 /\ col_dir = 0 /\ start_row = 0 /\ start_col = 0
    /\ main_loop_count = 0 /\ door_flag = FALSE
    /\ tunn = <<>> /\ wall = <<>> /\ door = <<>> /\ turns = <<>>
    /\ pierced = {}

VaultIdle == stamp = <<>>

TownIdle ==
    /\ w_pc = "idle" /\ Rand_quick = FALSE /\ Rand_value = 0
    /\ Rand_state = 0 /\ seed_town = 0 /\ rooms_left = <<>> /\ n_left = 0
    /\ slot = 0 /\ p_yx = <<>> /\ stores = <<>> /\ stair = <<>>
    /\ entry_state = 0 /\ visit = 0 /\ town_before = <<>>

CavIdle == cv_tries = 0 /\ openc = 0

MazeIdle ==
    /\ m_pc = "idle" /\ lab_h = 0 /\ lab_w = 0 /\ m_sets = <<>> /\ lab_i = 0
    /\ walls_left = {} /\ others_left = 0 /\ knocked = 0

GvIdle ==
    /\ gv_pc = "idle" /\ gv_i = 0 /\ numerator = 0 /\ denominator = 0
    /\ gv_overflow = FALSE /\ gv_roll = 0 /\ gv_passed = FALSE
    /\ gv_result = FALSE

DoorIdle ==
    /\ jct_pc = "idle" /\ jct_i = 0 /\ jct_k = 0 /\ jct_tried = {}
    /\ jct_doors = {}

PlaceIdle ==
    /\ pl_pc = "idle" /\ blocks_tried = <<>> /\ built = 0 /\ num_rooms = 0
    /\ pl_b = <<0, 0>> /\ pl_key = 0 /\ pl_rarity = 0 /\ pl_i = 0
    /\ pl_iter = 0 /\ pl_calls = <<>>

MemIdle ==
    /\ mem_pc = "idle" /\ mem_depth = 0 /\ mem_perc = 0 /\ mem_tries = 0
    /\ mem_error = FALSE /\ mem_times = 0 /\ mem_cv = 0 /\ heap = <<>>

AllocIdle ==
    /\ ao_pc = "idle" /\ ao_set = 0 /\ ao_num = 0 /\ ao_k = 0 /\ ao_l = 0
    /\ ao_tries = 0 /\ ao_yx = <<>> /\ ao_log = <<>>

PitIdle ==
    /\ pt_pc = "idle" /\ pt_type = 0 /\ pt_depth = 0 /\ pt_centre = <<>>
    /\ pit_info = <<>> /\ pt_i = 0 /\ pit_idx = 0 /\ pit_dist = 0
    /\ pit_type = "NULL" /\ get_mon_num_hook = "NULL" /\ pt_scan = <<>>
    /\ pt_sample = <<>> /\ what = <<>> /\ pt_mon = <<>> /\ pt_ret = "none"

LateIdle == AllocIdle /\ PitIdle

MoreIdle == DoorIdle /\ PlaceIdle /\ MemIdle /\ LateIdle

ExtIdle ==
    /\ DirIdle /\ TunIdle /\ VaultIdle /\ TownIdle /\ CavIdle /\ MazeIdle
    /\ GvIdle /\ MoreIdle

-----------------------------------------------------------------------------
(* Director: cave_generate                                                 *)

\* for (tries = 0; tries < 100 && error; tries++)
MAX_TRIES == 100

\* limits.txt: M:O:1024 and M:M:1024 (z_info->o_max, z_info->m_max)
z_info_o_max == 1024
z_info_m_max == 1024

NULL == "NULL"

\* p->depth values the director is driven with (0 is the town)
DepthValues == {0, 1, 13, 15, 40}

\* representative rolls of randint0(100) around the cavern cutoff
PercValues == {0, 10, 11, 99}

\* object / monster counts an attempt can end with
ObjCounts == {1, z_info_o_max - 1, z_info_o_max}
MonCounts == {1, z_info_m_max - 1, z_info_m_max}

\* static struct cave_profile cave_profiles[NUM_CAVE_PROFILES]
cave_profiles ==
    <<[name |-> "labyrinth", cutoff |-> 100],
      [name |-> "cavern",    cutoff |-> 10],
      [name |-> "default",   cutoff |-> 100]>>

NUM_CAVE_PROFILES == Len(cave_profiles)

\* the values a builder can return at depth d
\*   labyrinth_gen: FALSE below depth 13 and on a failed chance roll
\*   cavern_gen:    FALSE below depth 15 and after MAX_CAVERN_TRIES failures
\*   default_gen:   always TRUE
BuilderResults(name, d) ==
    CASE name = "labyrinth" -> IF d < 13 THEN {FALSE} ELSE BOOLEAN
      [] name = "cavern"    -> IF d < 15 THEN {FALSE} ELSE BOOLEAN
      [] OTHER              -> {TRUE}

\* the loop condition of the generation loop
LoopContinuesOneMore == tries <= MAX_TRIES /\ error # NULL

LoopContinues == tries < MAX_TRIES /\ error # NULL

\* the error the overflow checks leave (the monster check comes last)
OverflowError(o, m) ==
    IF m >= z_info_m_max THEN "too many monsters"
    ELSE IF o >= z_info_o_max THEN "too many objects"
    ELSE NULL

GenInit ==
    /\ depth \in DepthValues
    /\ tries = 0
    /\ error = "no generation"
    /\ character_dungeon \in BOOLEAN
    /\ gen_pc = "for_test"
    /\ perc = 0
    /\ profile_i = 0
    /\ built_by = "none"
    /\ overflows = 0

\* loop test; on entry to the body: error = NULL, cave_clear,
\* character_dungeon = FALSE, clear_dun_data, and the town builder at depth 0
GenLoopEnter ==
    /\ gen_pc = "for_test"
    /\ LoopContinues
    /\ error' = NULL
    /\ character_dungeon' = FALSE
    /\ IF depth = 0
         THEN /\ built_by' = "town-default"
              /\ gen_pc' = "post"
              /\ UNCHANGED <<perc, profile_i>>
         ELSE /\ perc' \in PercValues
              /\ profile_i' = 0
              /\ built_by' = "none"
              /\ gen_pc' = "profiles"
    /\ UNCHANGED <<depth, tries, overflows>>
    /\ UNCHANGED notGen

GenLoopLeave ==
    /\ gen_pc = "for_test"
    /\ ~LoopContinues
    /\ gen_pc' = "exit"
    /\ UNCHANGED <<depth, tries, error, character_dungeon, perc, profile_i,
                   built_by, overflows>>
    /\ UNCHANGED notGen

\* one round of: for (i = 0; i < NUM_CAVE_PROFILES; i++)
GenTryProfile ==
    /\ gen_pc = "profiles"
    /\ profile_i < NUM_CAVE_PROFILES
    /\ LET profile == cave_profiles[profile_i + 1]
           last == NUM_CAVE_PROFILES - 1
       IN IF profile_i < last /\ profile.cutoff < perc
            THEN /\ profile_i' = profile_i + 1
                 /\ UNCHANGED <<gen_pc, built_by>>
            ELSE \E ok \in BuilderResults(profile.name, depth) :
                    IF ok
                      THEN /\ built_by' = profile.name
                           /\ gen_pc' = "post"
                           /\ UNCHANGED profile_i
                      ELSE /\ profile_i' = profile_i + 1
                           /\ UNCHANGED <<gen_pc, built_by>>
    /\ UNCHANGED <<depth, tries, error, character_dungeon, perc, overflows>>
    /\ UNCHANGED notGen

\* quest monsters, place_feeling, the overflow checks, and tries++
GenPost ==
    /\ gen_pc = "post"
    /\ \E o \in ObjCounts, m \in MonCounts :
          /\ error' = OverflowError(o, m)
          /\ overflows' = IF OverflowError(o, m) # NULL
                            THEN overflows + 1 ELSE overflows
    /\ tries' = tries + 1
    /\ gen_pc' = "for_test"
    /\ UNCHANGED <<depth, character_dungeon, perc, profile_i, built_by>>
    /\ UNCHANGED notGen

\* if (error) quit_fmt("cave_generate() failed 100 times!");
GenQuit ==
    /\ gen_pc = "exit"
    /\ error # NULL
    /\ gen_pc' = "quit"
    /\ UNCHANGED <<depth, tries, error, character_dungeon, perc, profile_i,
                   built_by, overflows>>
    /\ UNCHANGED notGen

\* character_dungeon = TRUE; c->created_at = turn;
GenCommit ==
    /\ gen_pc = "exit"
    /\ error = NULL
    /\ character_dungeon' = TRUE
    /\ gen_pc' = "committed"
    /\ UNCHANGED <<depth, tries, error, perc, profile_i, built_by, overflows>>
    /\ UNCHANGED notGen

NextGen ==
    \/ GenLoopEnter
    \/ GenLoopLeave
    \/ GenTryProfile
    \/ GenPost
    \/ GenQuit
    \/ GenCommit

InitGen ==
    /\ GenInit /\ RoomIdle /\ CaveIdle /\ BuildIdle /\ RepairIdle /\ LevelIdle
    /\ ExtIdle

SpecGen == InitGen /\ [][NextGen]_vars

-----------------------------------------------------------------------------
(* Room placement: room_build and the room set-up of default_gen           *)

\* number of 11x11 blocks along each axis of the level being modelled
\* (MAX_ROOMS_ROW x MAX_ROOMS_COL is 6x18 in the game)
MAX_ROOMS_ROW == 3
MAX_ROOMS_COL == 5

\* dun->row_rooms = c->height / BLOCK_HGT; dun->col_rooms = c->width / BLOCK_WID
row_rooms == MAX_ROOMS_ROW
col_rooms == MAX_ROOMS_COL

Blocks == (0 .. MAX_ROOMS_ROW - 1) \X (0 .. MAX_ROOMS_COL - 1)

\* c->depth values the room placement is driven with
RoomDepths == {1, 5, 10}

\* static struct room_profile default_rooms[]
\* (fields in struct order: name, builder, height, width, level, crowded,
\*  rarity, cutoff)
default_rooms ==
    <<[name |-> "greater vault", height |-> 4, width |-> 6, level |-> 10,
       crowded |-> FALSE, rarity |-> 1, cutoff |-> 100],
      [name |-> "medium vault",  height |-> 2, width |-> 3, level |-> 5,
       crowded |-> FALSE, rarity |-> 2, cutoff |-> 10],
      [name |-> "lesser vault",  height |-> 2, width |-> 3, level |-> 5,
       crowded |-> FALSE, rarity |-> 2, cutoff |-> 25],
      [name |-> "monster pit",   height |-> 1, width |-> 3, level |-> 5,
       crowded |-> TRUE,  rarity |-> 2, cutoff |-> 40],
      [name |-> "monster nest",  height |-> 1, width |-> 3, level |-> 5,
       crowded |-> TRUE,  rarity |-> 2, cutoff |-> 50],
      [name |-> "large room",    height |-> 1, width |-> 3, level |-> 3,
       crowded |-> FALSE, rarity |-> 1, cutoff |-> 25],
      [name |-> "crossed room",  height |-> 1, width |-> 3, level |-> 3,
       crowded |-> FALSE, rarity |-> 1, cutoff |-> 50],
      [name |-> "circular room", height |-> 2, width |-> 2, level |-> 1,
       crowded |-> FALSE, rarity |-> 1, cutoff |-> 60],
      [name |-> "overlap room",  height |-> 1, width |-> 3, level |-> 1,
       crowded |-> FALSE, rarity |-> 1, cutoff |-> 100],
      [name |-> "simple room",   height |-> 1, width |-> 3, level |-> 1,
       crowded |-> FALSE, rarity |-> 0, cutoff |-> 100]>>

RoomProfiles == {default_rooms[i] : i \in 1 .. Len(default_rooms)}

\* the values profile.builder(c, y, x) can return:
\*   build_greater_vault: FALSE when a centre is already saved or the depth
\*                        roll fails or no vault of the type exists
\*   build_medium_vault, build_lesser_vault: FALSE when random_vault is NULL
\*   build_pit, build_nest: FALSE when get_mon_num failed ("empty")
\*   every other builder returns TRUE
RoomBuilderResults(profile, n_cent) ==
    CASE profile.name = "greater vault" ->
             IF n_cent > 0 THEN {FALSE} ELSE BOOLEAN
      [] profile.name \in {"medium vault", "lesser vault",
                           "monster pit", "monster nest"} -> BOOLEAN
      [] OTHER -> {TRUE}

\* a bug: the crowded check of room_build left out
CrowdedRefusedNever(profile) == FALSE

\* if (dun->crowded && profile.crowded) return FALSE;
CrowdedRefused(profile) == crowded /\ profile.crowded

\* if (by1 < 0 || by2 >= dun->row_rooms) return FALSE; (and the same for bx)
OffScreen(by1, bx1, by2, bx2) ==
    \/ by1 < 0 \/ by2 >= row_rooms
    \/ bx1 < 0 \/ bx2 >= col_rooms

\* a bug: only the block the room starts at is verified
VerifiedBlocksCornerOnly(by1, bx1, by2, bx2) == {<<by1, bx1>>}

\* "Verify open space": for (by = by1; by <= by2; by++) for (bx = bx1; bx <= bx2; bx++)
VerifiedBlocks(by1, bx1, by2, bx2) == (by1 .. by2) \X (bx1 .. bx2)

\* "Reserve some blocks": for (by = by1; by < by2; by++) for (bx = bx1; bx < bx2; bx++)
ReservedBlocks(by1, bx1, by2, bx2) == (by1 .. by2 - 1) \X (bx1 .. bx2 - 1)

UsedBlocks == {b \in Blocks : room_map[b]}

\* default_gen, lines 624-634: the room table, crowded and cent_n are reset
RoomInit ==
    /\ c_depth \in RoomDepths
    /\ room_map = [b \in Blocks |-> FALSE]
    /\ crowded = FALSE
    /\ cent_n = 0
    /\ reserved_cnt = [b \in Blocks |-> 0]
    /\ crowded_built = 0
    /\ last_call = [op |-> "default_gen"]

\* a new level attempt reaches the room set-up of default_gen again
DefaultGenStart ==
    /\ last_call.op = "room_build"
    /\ c_depth' \in RoomDepths
    /\ room_map' = [b \in Blocks |-> FALSE]
    /\ crowded' = FALSE
    /\ cent_n' = 0
    /\ reserved_cnt' = [b \in Blocks |-> 0]
    /\ crowded_built' = 0
    /\ last_call' = [op |-> "default_gen"]
    /\ UNCHANGED notRoom

\* the record kept of a room_build call: why it returned (the first check
\* of the code that failed, "builder" when the builder returned FALSE, "ok"
\* on success) and the blocks it marked
CallRecord(profile, why, called, result, marked) ==
    [op |-> "room_build", crowded_profile |-> profile.crowded,
     crowded_before |-> crowded, why |-> why, builder_called |-> called,
     result |-> result, marked |-> marked,
     premarked |-> marked \cap UsedBlocks]

\* the first check of room_build that fails, in the order of the code
RefusedWhy(by1, bx1, by2, bx2, profile) ==
    IF c_depth < profile.level THEN "level"
    ELSE IF CrowdedRefused(profile) THEN "crowded"
    ELSE IF OffScreen(by1, bx1, by2, bx2) THEN "offscreen"
    ELSE IF \E b \in VerifiedBlocks(by1, bx1, by2, bx2) : room_map[b] THEN "used"
    ELSE "none"

\* room_build returns FALSE before the builder is called
RoomBuildRefusedCore(by0, bx0, profile) ==
    LET by1 == by0
        bx1 == bx0
        by2 == by0 + profile.height
        bx2 == bx0 + profile.width
        why == RefusedWhy(by1, bx1, by2, bx2, profile)
    IN /\ why # "none"
       /\ last_call' = CallRecord(profile, why, FALSE, FALSE, {})
       /\ UNCHANGED <<c_depth, room_map, crowded, cent_n, reserved_cnt,
                      crowded_built>>

\* room_build calls the builder, which returns FALSE
RoomBuildFailedCore(by0, bx0, profile) ==
    LET by1 == by0
        bx1 == bx0
        by2 == by0 + profile.height
        bx2 == bx0 + profile.width
    IN /\ RefusedWhy(by1, bx1, by2, bx2, profile) = "none"
       /\ FALSE \in RoomBuilderResults(profile, cent_n)
       /\ last_call' = CallRecord(profile, "builder", TRUE, FALSE, {})
       /\ UNCHANGED <<c_depth, room_map, crowded, cent_n, reserved_cnt,
                      crowded_built>>

\* room_build calls the builder, which returns TRUE: the centre is saved,
\* the blocks are reserved and a crowded room is counted
RoomBuildDoneCore(by0, bx0, profile) ==
    LET by1 == by0
        bx1 == bx0
        by2 == by0 + profile.height
        bx2 == bx0 + profile.width
        marked == ReservedBlocks(by1, bx1, by2, bx2)
    IN /\ RefusedWhy(by1, bx1, by2, bx2, profile) = "none"
       /\ TRUE \in RoomBuilderResults(profile, cent_n)
       /\ cent_n' = cent_n + 1
       /\ room_map' = [b \in Blocks |-> IF b \in marked THEN TRUE ELSE room_map[b]]
       /\ reserved_cnt' = [b \in Blocks |->
                             IF b \in marked THEN reserved_cnt[b] + 1
                             ELSE reserved_cnt[b]]
       /\ crowded' = IF profile.crowded THEN TRUE ELSE crowded
       /\ crowded_built' = IF profile.crowded THEN crowded_built + 1
                           ELSE crowded_built
       /\ last_call' = CallRecord(profile, "ok", TRUE, TRUE, marked)
       /\ UNCHANGED c_depth

\* the three outcomes of room_build on the block map alone
RoomBuildRefused(by0, bx0, profile) ==
    RoomBuildRefusedCore(by0, bx0, profile) /\ UNCHANGED notRoom

RoomBuildFailed(by0, bx0, profile) ==
    RoomBuildFailedCore(by0, bx0, profile) /\ UNCHANGED notRoom

RoomBuildDone(by0, bx0, profile) ==
    RoomBuildDoneCore(by0, bx0, profile) /\ UNCHANGED notRoom

NextRooms ==
    \/ DefaultGenStart
    \/ \E b \in Blocks, profile \in RoomProfiles :
          \/ RoomBuildRefused(b[1], b[2], profile)
          \/ RoomBuildFailed(b[1], b[2], profile)
          \/ RoomBuildDone(b[1], b[2], profile)

InitRooms ==
    /\ RoomInit /\ GenIdle /\ CaveIdle /\ BuildIdle /\ RepairIdle /\ LevelIdle
    /\ ExtIdle

SpecRooms == InitRooms /\ [][NextRooms]_vars

-----------------------------------------------------------------------------
(* Cells: grid primitives (gen-util.c) and room builders (room.c)          *)

\* a room block is 11x11 cells
BLOCK_HGT == 11
BLOCK_WID == 11

\* the size of the arrays c->feat and c->info, which a level need not fill
DUNGEON_HGT == Cardinality(DOMAIN feat)
DUNGEON_WID == Cardinality(DOMAIN feat[0])

\* feature codes
FEAT_FLOOR      == "FEAT_FLOOR"
FEAT_SECRET     == "FEAT_SECRET"
FEAT_WALL_EXTRA == "FEAT_WALL_EXTRA"
FEAT_WALL_INNER == "FEAT_WALL_INNER"
FEAT_WALL_OUTER == "FEAT_WALL_OUTER"
FEAT_WALL_SOLID == "FEAT_WALL_SOLID"
FEAT_PERM_INNER == "FEAT_PERM_INNER"
FEAT_PERM_SOLID == "FEAT_PERM_SOLID"

\* info flags
CAVE_ROOM == "CAVE_ROOM"
CAVE_GLOW == "CAVE_GLOW"
CAVE_ICKY == "CAVE_ICKY"

\* the cells of an h x w level
Cells(h, w) == (0 .. h - 1) \X (0 .. w - 1)

InRect(c, y1, x1, y2, x2) ==
    /\ y1 <= c[1] /\ c[1] <= y2
    /\ x1 <= c[2] /\ c[2] <= x2

OnEdge(c, y1, x1, y2, x2) ==
    \/ y1 <= c[1] /\ c[1] <= y2 /\ (c[2] = x1 \/ c[2] = x2)
    \/ x1 <= c[2] /\ c[2] <= x2 /\ (c[1] = y1 \/ c[1] = y2)

\* The primitives are written cell by cell: each gives the feature (or the
\* flags) of cell c after the call, from its value v before the call.

\* cave_set_feat(c, y, x, feat)
cave_set_feat(v, c, y, x, f) == IF c = <<y, x>> THEN f ELSE v

\* fill_rectangle(c, y1, x1, y2, x2, feat), bounds inclusive
fill_rectangle(v, c, y1, x1, y2, x2, f) ==
    IF InRect(c, y1, x1, y2, x2) THEN f ELSE v

\* draw_rectangle(c, y1, x1, y2, x2, feat): the edges of the rectangle
draw_rectangle(v, c, y1, x1, y2, x2, f) ==
    IF OnEdge(c, y1, x1, y2, x2) THEN f ELSE v

\* generate_room: c->info[y][x] |= CAVE_ROOM | (light ? CAVE_GLOW : 0)
generate_room(v, c, y1, x1, y2, x2, light) ==
    IF InRect(c, y1, x1, y2, x2)
      THEN v \cup {CAVE_ROOM} \cup (IF light THEN {CAVE_GLOW} ELSE {})
      ELSE v

\* generate_hole: open one side of a rectangle; r is the roll randint0(4)
generate_hole(v, c, y1, x1, y2, x2, f, r) ==
    LET y0 == (y1 + y2) \div 2
        x0 == (x1 + x2) \div 2
    IN CASE r = 0 -> cave_set_feat(v, c, y1, x0, f)
         [] r = 1 -> cave_set_feat(v, c, y0, x1, f)
         [] r = 2 -> cave_set_feat(v, c, y2, x0, f)
         [] r = 3 -> cave_set_feat(v, c, y0, x2, f)

\* the rolls a call of randint1(n) is driven with: its smallest and its
\* largest value
Randint1(n) == {1, n}

\* the size rolls build_simple is driven with:
\* <<randint1(4), randint1(11), randint1(3), randint1(11)>>
SimpleRolls == {<<1, 1, 1, 1>>, <<2, 5, 1, 7>>, <<4, 11, 3, 11>>}

\* A builder gives the cell [feat, info] it leaves at c, from the cell it
\* found there; what it returns is given by a second operator.

\* build_simple: rolls dy1 = randint1(4), dx1 = randint1(11), dy2 = randint1(3),
\* dx2 = randint1(11), lr = randint1(25); kind says which of the two
\* one_in_ rolls succeeded
build_simple(cell, c, d, y0, x0, dy1, dx1, dy2, dx2, lr, kind) ==
    LET y1 == y0 - dy1
        x1 == x0 - dx1
        y2 == y0 + dy2
        x2 == x0 + dx2
        light == d <= lr
        pillar == /\ InRect(c, y1, x1, y2, x2)
                  /\ (c[1] - y1) % 2 = 0 /\ (c[2] - x1) % 2 = 0
        ragged ==
            \/ /\ y1 + 2 <= c[1] /\ c[1] <= y2 - 2 /\ (c[1] - y1) % 2 = 0
               /\ (c[2] = x1 \/ c[2] = x2)
            \/ /\ x1 + 2 <= c[2] /\ c[2] <= x2 - 2 /\ (c[2] - x1) % 2 = 0
               /\ (c[1] = y1 \/ c[1] = y2)
        inner == CASE kind = "pillar" -> pillar
                   [] kind = "ragged" -> ragged
                   [] OTHER -> FALSE
        walls == draw_rectangle(cell.feat, c, y1 - 1, x1 - 1, y2 + 1, x2 + 1,
                                FEAT_WALL_OUTER)
        floors == fill_rectangle(walls, c, y1, x1, y2, x2, FEAT_FLOOR)
    IN [feat |-> IF inner THEN FEAT_WALL_INNER ELSE floors,
        info |-> generate_room(cell.info, c, y1 - 1, x1 - 1, y2 + 1, x2 + 1,
                               light)]

build_simple_returns == TRUE

\* the part build_nest and build_pit share: the room, its outer walls and
\* floor, the inner walls and the secret door (r = the roll of generate_hole)
PitLayout(cell, c, y0, x0, r) ==
    LET y1 == y0 - 4
        y2 == y0 + 4
        x1 == x0 - 11
        x2 == x0 + 11
        iy1 == y1 + 2
        iy2 == y2 - 2
        ix1 == x1 + 2
        ix2 == x2 - 2
        walls == draw_rectangle(cell.feat, c, y1 - 1, x1 - 1, y2 + 1, x2 + 1,
                                FEAT_WALL_OUTER)
        floors == fill_rectangle(walls, c, y1, x1, y2, x2, FEAT_FLOOR)
        inner == draw_rectangle(floors, c, iy1 - 1, ix1 - 1, iy2 + 1, ix2 + 1,
                                FEAT_WALL_INNER)
    IN [feat |-> generate_hole(inner, c, iy1 - 1, ix1 - 1, iy2 + 1, ix2 + 1,
                               FEAT_SECRET, r),
        info |-> generate_room(cell.info, c, y1 - 1, x1 - 1, y2 + 1, x2 + 1,
                               FALSE)]

\* build_nest: the layout is drawn, then the 64 monster races are picked;
\* empty = one of the get_mon_num calls returned 0.
\* (On success monsters and objects are placed; they are not cell features.)
build_nest(cell, c, y0, x0, r, empty) == PitLayout(cell, c, y0, x0, r)

\* if (empty) return FALSE; ... return TRUE;
build_nest_returns(empty) == ~empty

\* build_pit: the layout is drawn, then the 16 monster races are picked
build_pit(cell, c, y0, x0, r, empty) == PitLayout(cell, c, y0, x0, r)

build_pit_returns(empty) == ~empty

\* vault texts the vault list is driven with (the game reads them from
\* vault.txt): "%" doorstep wall, "#" inner wall, "X" permanent inner wall,
\* "+" secret door, "." floor, "9" monster and treasure, " " not a grid
VaultTexts ==
    {<< <<"%", "%", "%", "%", "%">>,
        <<"%", ".", "+", ".", "%">>,
        <<"%", "#", "9", "X", "%">>,
        <<"%", "%", "%", "%", "%">> >>,
     << <<" ", "%", "%", "%", " ", " ", " ">>,
        <<"%", "#", "+", "#", "%", "%", "%">>,
        <<"%", "#", ".", ".", "9", "X", "%">>,
        <<"%", "#", "#", "#", "X", "X", "%">>,
        <<" ", "%", "%", "%", "%", "%", " ">> >>}

NoVault == <<>>

\* random_vault(typ): a vault of the type, or NULL when the list has none
random_vault == VaultTexts \cup {NoVault}

\* the feature build_vault leaves for a symbol of the text
VaultFeat(t) ==
    CASE t = "%" -> FEAT_WALL_OUTER
      [] t = "#" -> FEAT_WALL_INNER
      [] t = "X" -> FEAT_PERM_INNER
      [] t = "+" -> FEAT_SECRET
      [] OTHER   -> FEAT_FLOOR

\* build_vault that marks the doorstep walls icky as well
build_vault_all_icky(cell, c, y0, x0, ymax, xmax, data) ==
    LET dy == c[1] - (y0 - (ymax \div 2))
        dx == c[2] - (x0 - (xmax \div 2))
        inside == /\ 0 <= dy /\ dy < ymax
                  /\ 0 <= dx /\ dx < xmax
        t == data[dy + 1][dx + 1]
    IN IF inside /\ t # " "
         THEN [feat |-> VaultFeat(t),
               info |-> cell.info \cup {CAVE_ROOM, CAVE_ICKY}]
         ELSE cell

\* build_vault(c, y0, x0, ymax, xmax, data): the features and flags
build_vault(cell, c, y0, x0, ymax, xmax, data) ==
    LET dy == c[1] - (y0 - (ymax \div 2))
        dx == c[2] - (x0 - (xmax \div 2))
        inside == /\ 0 <= dy /\ dy < ymax
                  /\ 0 <= dx /\ dx < xmax
        t == data[dy + 1][dx + 1]
    IN IF inside /\ t # " "
         THEN [feat |-> VaultFeat(t),
               info |-> cell.info \cup {CAVE_ROOM}
                          \cup (IF t = "%" THEN {} ELSE {CAVE_ICKY})]
         ELSE cell

\* build_vault_type: v is the result of random_vault(typ)
build_vault_type(cell, c, y0, x0, v) ==
    IF v = NoVault THEN cell
    ELSE build_vault(cell, c, y0, x0, Len(v), Len(v[1]), v)

\* if (v_ptr == NULL) return FALSE; ... return TRUE;
build_vault_type_returns(v) == v # NoVault

\* room_build: y = ((by1 + by2 + 1) * BLOCK_HGT) / 2, and the same for x
RoomY(by0, profile) == ((by0 + by0 + profile.height + 1) * BLOCK_HGT) \div 2
RoomX(bx0, profile) == ((bx0 + bx0 + profile.width + 1) * BLOCK_WID) \div 2

RoomProfile(name) == CHOOSE profile \in RoomProfiles : profile.name = name

CellAt(c) == [feat |-> feat[c[1]][c[2]], info |-> info[c[1]][c[2]]]

\* the rows and columns of the level
Rows == 0 .. c_height - 1
Cols == 0 .. c_width - 1

\* default_gen up to the room loop: the level has the full size and is
\* filled with basic granite; cave_clear has wiped the flags
BuildInit ==
    /\ RoomInit
    /\ c_height = MAX_ROOMS_ROW * BLOCK_HGT
    /\ c_width = MAX_ROOMS_COL * BLOCK_WID
    /\ feat = [y \in Rows |-> [x \in Cols |-> FEAT_WALL_EXTRA]]
    /\ info = [y \in Rows |-> [x \in Cols |-> {}]]
    /\ feat_before = feat
    /\ info_before = info
    /\ stamp = <<>>

\* room_build(c, by0, bx0, profile) passes its checks on a level on which
\* no room has been tried yet
ReachesBuilder(by0, bx0, profile) ==
    /\ last_call.op = "default_gen"
    /\ RefusedWhy(by0, bx0, by0 + profile.height, bx0 + profile.width,
                  profile) = "none"

\* room_build(c, by0, bx0, profile) reaches the builder, which leaves the
\* cell out[y][x] at every <<y, x>> and returns result
BuilderCall(by0, bx0, profile, out, result) ==
    /\ feat_before' = feat
    /\ info_before' = info
    /\ feat' = [y \in Rows |-> [x \in Cols |-> out[y][x].feat]]
    /\ info' = [y \in Rows |-> [x \in Cols |-> out[y][x].info]]
    /\ IF result
         THEN RoomBuildDoneCore(by0, bx0, profile)
         ELSE RoomBuildFailedCore(by0, bx0, profile)
    /\ UNCHANGED <<c_height, c_width>>
    /\ UNCHANGED notBuild

BuildSimple(by0, bx0) ==
    \E profile \in {RoomProfile("simple room")} :
    \E y \in {RoomY(by0, profile)}, x \in {RoomX(bx0, profile)} :
       /\ ReachesBuilder(by0, bx0, profile)
       /\ \E rolls \in SimpleRolls, lr \in Randint1(25),
          kind \in {"plain", "pillar", "ragged"} :
          \E out \in {[yy \in Rows |-> [xx \in Cols |->
                         LET c == <<yy, xx>>
                         IN build_simple(CellAt(c), c, c_depth, y, x,
                                                 rolls[1], rolls[2], rolls[3],
                                                 rolls[4], lr, kind)]]} :
             /\ BuilderCall(by0, bx0, profile, out, build_simple_returns)
             /\ UNCHANGED stamp

BuildNest(by0, bx0) ==
    \E profile \in {RoomProfile("monster nest")} :
    \E y \in {RoomY(by0, profile)}, x \in {RoomX(bx0, profile)} :
       /\ ReachesBuilder(by0, bx0, profile)
       /\ \E r \in 0 .. 3, empty \in BOOLEAN :
          \E out \in {[yy \in Rows |-> [xx \in Cols |->
                         LET c == <<yy, xx>>
                         IN build_nest(CellAt(c), c, y, x, r, empty)]]} :
             /\ BuilderCall(by0, bx0, profile, out, build_nest_returns(empty))
             /\ UNCHANGED stamp

BuildPit(by0, bx0) ==
    \E profile \in {RoomProfile("monster pit")} :
    \E y \in {RoomY(by0, profile)}, x \in {RoomX(bx0, profile)} :
       /\ ReachesBuilder(by0, bx0, profile)
       /\ \E r \in 0 .. 3, empty \in BOOLEAN :
          \E out \in {[yy \in Rows |-> [xx \in Cols |->
                         LET c == <<yy, xx>>
                         IN build_pit(CellAt(c), c, y, x, r, empty)]]} :
             /\ BuilderCall(by0, bx0, profile, out, build_pit_returns(empty))
             /\ UNCHANGED stamp

BuildLesserVault(by0, bx0) ==
    \E profile \in {RoomProfile("lesser vault")} :
    \E y \in {RoomY(by0, profile)}, x \in {RoomX(bx0, profile)} :
       /\ ReachesBuilder(by0, bx0, profile)
       /\ \E v \in random_vault :
          \E out \in {[yy \in Rows |-> [xx \in Cols |->
                         LET c == <<yy, xx>>
                         IN build_vault_type(CellAt(c), c, y, x, v)]]} :
             /\ BuilderCall(by0, bx0, profile, out,
                            build_vault_type_returns(v))
             /\ stamp' = IF v = NoVault THEN stamp
                         ELSE [data |-> v, y0 |-> y, x0 |-> x]

BuildMediumVault(by0, bx0) ==
    \E profile \in {RoomProfile("medium vault")} :
    \E y \in {RoomY(by0, profile)}, x \in {RoomX(bx0, profile)} :
       /\ ReachesBuilder(by0, bx0, profile)
       /\ \E v \in random_vault :
          \E out \in {[yy \in Rows |-> [xx \in Cols |->
                         LET c == <<yy, xx>>
                         IN build_vault_type(CellAt(c), c, y, x, v)]]} :
             /\ BuilderCall(by0, bx0, profile, out,
                            build_vault_type_returns(v))
             /\ stamp' = IF v = NoVault THEN stamp
                         ELSE [data |-> v, y0 |-> y, x0 |-> x]

NextBuild ==
    \E b \in Blocks :
       \/ BuildSimple(b[1], b[2])
       \/ BuildNest(b[1], b[2])
       \/ BuildPit(b[1], b[2])
       \/ BuildLesserVault(b[1], b[2])
       \/ BuildMediumVault(b[1], b[2])

InitBuild ==
    /\ BuildInit /\ MoreIdle /\ GenIdle /\ RepairIdle /\ LevelIdle /\ DirIdle /\ TunIdle
    /\ TownIdle /\ CavIdle /\ MazeIdle /\ GvIdle

SpecBuild == InitBuild /\ [][NextBuild]_vars

-----------------------------------------------------------------------------
(* Levels on a small array: layouts, regions, connectivity repair          *)

\* the arrays c->feat and c->info of the level specifications
ARRAY_HGT == 8
ARRAY_WID == 12

FEAT_NONE      == "FEAT_NONE"
FEAT_MORE      == "FEAT_MORE"
FEAT_LESS      == "FEAT_LESS"
FEAT_RUBBLE    == "FEAT_RUBBLE"
FEAT_DOOR_HEAD == "FEAT_DOOR_HEAD"
FEAT_TRAP      == "FEAT_TRAP"

\* rand_range(a, b), driven with its two extremes
RandRange(a, b) == {a, b}

FeatAt(c) == feat[c[1]][c[2]]

\* the cells of the level: c->height rows of c->width cells
LevelCells == Cells(c_height, c_width)

\* for (y = 1; y < h - 1; y++) for (x = 1; x < w - 1; x++)
Interior(h, w) == (1 .. h - 2) \X (1 .. w - 2)

\* index of a cell in a flat array of rows of width w
lab_toi(y, x, w) == y * w + x

Adjacent4(c) ==
    {<<c[1] - 1, c[2]>>, <<c[1] + 1, c[2]>>,
     <<c[1], c[2] - 1>>, <<c[1], c[2] + 1>>}

\* flood fill over 4-connected steps inside the set allowed
RECURSIVE Flood(_, _, _)
Flood(frontier, seen, allowed) ==
    IF frontier = {} THEN seen
    ELSE LET nxt == (UNION {Adjacent4(c) : c \in frontier} \cap allowed) \ seen
         IN Flood(nxt, seen \cup nxt, allowed)

Region(c, allowed) == Flood({c}, {c}, allowed)

cave_isfloor(c) == FeatAt(c) = FEAT_FLOOR

FloorCells == {c \in LevelCells : cave_isfloor(c)}

\* the 4-connected regions of a set of cells
RegionsOf(S) == {Region(c, S) : c \in S}

\* one 4-connected region, or no cell at all
Connected(S) == \A c \in S : \A d \in S : d \in Region(c, S)

\* the cell of S with the least and with the greatest index: the two
\* cells a random choice among S is driven with
LeastCell(S) ==
    CHOOSE c \in S : \A d \in S :
        lab_toi(c[1], c[2], DUNGEON_WID) <= lab_toi(d[1], d[2], DUNGEON_WID)

GreatestCell(S) ==
    CHOOSE c \in S : \A d \in S :
        lab_toi(c[1], c[2], DUNGEON_WID) >= lab_toi(d[1], d[2], DUNGEON_WID)

Pick(S) == IF S = {} THEN {} ELSE {LeastCell(S), GreatestCell(S)}

\* a rectangle <<y1, x1, y2, x2>>, bounds inclusive
InRects(c, rects) == \E r \in rects : InRect(c, r[1], r[2], r[3], r[4])

\* ---- layouts: what the room, tunnel and cavern steps leave behind ----
\* rooms: floor with CAVE_ROOM set; halls: floor outside rooms;
\* stairs: a staircase a room builder placed (place_random_stairs)

RoomA == <<1, 1, 2, 3>>
RoomB == <<5, 7, 6, 9>>
HallAB == {<<2, 4, 2, 9>>, <<3, 9, 4, 9>>}
HallStub == {<<4, 2, 4, 4>>}

\* default levels whose rooms and tunnels do not hang together
DefaultBroken ==
    {[rooms |-> {RoomA, RoomB}, halls |-> HallStub, stairs |-> {}],
     [rooms |-> {RoomA, RoomB}, halls |-> {}, stairs |-> {}],
     [rooms |-> {RoomA}, halls |-> HallStub, stairs |-> {}],
     [rooms |-> {RoomA, RoomB}, halls |-> HallAB \cup HallStub,
      stairs |-> {}]}

\* caverns after the last mutate_cavern pass
BlobA == <<1, 1, 3, 3>>
BlobB == <<1, 5, 3, 7>>
BlobAB == <<2, 4, 3, 4>>
CavernBroken ==
    {[rooms |-> {}, halls |-> {BlobA, BlobB, <<4, 4, 4, 4>>},
      stairs |-> {}],
     [rooms |-> {}, halls |-> {BlobA, BlobB}, stairs |-> {}],
     [rooms |-> {}, halls |-> {BlobA, <<1, 5, 1, 7>>, <<4, 5, 4, 7>>},
      stairs |-> {}],
     [rooms |-> {}, halls |-> {BlobA, BlobB, BlobAB, <<4, 6, 4, 7>>},
      stairs |-> {}]}

LayoutFloor(c, lay) == InRects(c, lay.rooms) \/ InRects(c, lay.halls)

LayoutFits(lay, h, w) ==
    \A r \in lay.rooms \cup lay.halls :
        1 <= r[1] /\ 1 <= r[2] /\ r[3] <= h - 2 /\ r[4] <= w - 2

\* what a layout leaves in a cell whose feature was v
LayoutFeat(v, c, lay) ==
    IF \E s \in lay.stairs : s[1] = c THEN
        (CHOOSE s \in lay.stairs : s[1] = c)[2]
    ELSE IF LayoutFloor(c, lay) THEN FEAT_FLOOR
    ELSE v

LayoutInfo(c, lay) == IF InRects(c, lay.rooms) THEN {CAVE_ROOM} ELSE {}

\* ---- the labyrinth ----

\* the labyrinth has LAB_ROWS x LAB_COLS one-cell rooms; its area is
\* h x w with both odd ("15 + randint0(c->depth / 10) * 2" in the code)
LAB_ROWS == 2
LAB_COLS == 3
LabHeight == 2 * LAB_ROWS - 1
LabWidth == 2 * LAB_COLS - 1

\* lab_toyx(i, w, &y, &x)
lab_toyx(i, w) == <<i \div w, i % w>>

\* lab_get_adjoin(i, w, &a, &b): the two cells the wall i divides
lab_get_adjoin(i, w) ==
    LET yx == lab_toyx(i, w)
    IN IF yx[2] % 2 = 0
       THEN <<lab_toi(yx[1] - 1, yx[2], w), lab_toi(yx[1] + 1, yx[2], w)>>
       ELSE <<lab_toi(yx[1], yx[2] - 1, w), lab_toi(yx[1], yx[2] + 1, w)>>

\* the orders shuffle(walls, n) is driven with: ascending and descending
WallOrders(n) == {[i \in 1 .. n |-> i - 1], [i \in 1 .. n |-> n - i]}

\* the loop "for (i = 0; i < n; i++)" of labyrinth_gen over the shuffled
\* walls, from position i on; the result is the set of walls removed
RECURSIVE kruskal(_, _, _, _, _, _)
kruskal(order, i, sets, opened, h, w) ==
    IF i > Len(order) THEN opened
    ELSE LET j == order[i]
             yx == lab_toyx(j, w)
             y == yx[1]
             x == yx[2]
         IN IF (x < 1 /\ y < 1) \/ (x > w - 2 /\ y > h - 2)
            THEN kruskal(order, i + 1, sets, opened, h, w)
            ELSE IF x % 2 = y % 2
            THEN kruskal(order, i + 1, sets, opened, h, w)
            ELSE LET ab == lab_get_adjoin(j, w)
                     sa == sets[ab[1]]
                     sb == sets[ab[2]]
                 IN IF sa # sb
                    THEN kruskal(order, i + 1,
                                 [k \in DOMAIN sets |->
                                    IF sets[k] = sb THEN sa ELSE sets[k]],
                                 opened \cup {yx}, h, w)
                    ELSE kruskal(order, i + 1, sets, opened, h, w)

\* sets[i] = -1 for walls, sets[k] = k for the one-cell rooms
lab_sets(h, w) ==
    [k \in 0 .. h * w - 1 |->
       IF (k \div w) % 2 = 0 /\ (k % w) % 2 = 0 THEN k ELSE -1]

\* ---- the cave a builder has made when its layout is finished ----

ArrayRows == 0 .. ARRAY_HGT - 1
ArrayCols == 0 .. ARRAY_WID - 1

\* cave_clear: c->feat[y][x] = 0; c->info[y][x] = 0;
cave_clear(cell) == [feat |-> FEAT_NONE, info |-> {}]

\* the array is DUNGEON_HGT x DUNGEON_WID; here that is ARRAY_HGT x
\* ARRAY_WID

\* default_gen that fills the level as it found it, not the whole array
default_gen_fill_level(v, c) ==
    draw_rectangle(
        fill_rectangle(v, c, 0, 0, c_height - 1, c_width - 1,
                       FEAT_WALL_EXTRA),
        c, 0, 0, c_height - 1, c_width - 1, FEAT_PERM_SOLID)

\* default_gen: granite everywhere, then permanent walls around the edge
default_gen_fill(v, c) ==
    draw_rectangle(
        fill_rectangle(v, c, 0, 0, ARRAY_HGT - 1, ARRAY_WID - 1,
                       FEAT_WALL_EXTRA),
        c, 0, 0, ARRAY_HGT - 1, ARRAY_WID - 1, FEAT_PERM_SOLID)

\* init_cavern: "Fill the edges with perma-rock, and rest with rock"
init_cavern(v, c) ==
    fill_rectangle(
        draw_rectangle(v, c, 0, 0, ARRAY_HGT - 1, ARRAY_WID - 1,
                       FEAT_PERM_SOLID),
        c, 1, 1, ARRAY_HGT - 2, ARRAY_WID - 2, FEAT_WALL_SOLID)

\* labyrinth_gen: "Fill whole level with perma-rock", "Fill the labyrinth
\* area with rock", the one-cell rooms and the walls Kruskal removed
labyrinth_fill(v, c, opened, h, w, soft) ==
    IF InRect(c, 1, 1, h, w)
          /\ (((c[1] - 1) % 2 = 0 /\ (c[2] - 1) % 2 = 0)
                 \/ <<c[1] - 1, c[2] - 1>> \in opened)
    THEN FEAT_FLOOR
    ELSE fill_rectangle(
            fill_rectangle(v, c, 0, 0, ARRAY_HGT - 1, ARRAY_WID - 1,
                           FEAT_PERM_SOLID),
            c, 1, 1, h, w,
            IF soft THEN FEAT_WALL_SOLID ELSE FEAT_PERM_SOLID)

\* cavern_gen: h = rand_range(DUNGEON_HGT / 2, (DUNGEON_HGT * 3) / 4)
CavernHeights == RandRange(ARRAY_HGT \div 2, (ARRAY_HGT * 3) \div 4)
CavernWidths == RandRange(ARRAY_WID \div 2, (ARRAY_WID * 3) \div 4)

\* what the builders are given: the builder, the level's own size, and
\* what its room, tunnel, automaton or maze steps came to
DefaultInputs(lays) ==
    {[profile |-> "default", h |-> ARRAY_HGT, w |-> ARRAY_WID, lay |-> lay,
      opened |-> {}, soft |-> FALSE, lit |-> FALSE] : lay \in lays}

CavernInputs(lays) ==
    {[profile |-> "cavern", h |-> hw[1], w |-> hw[2], lay |-> lay,
      opened |-> {}, soft |-> FALSE, lit |-> FALSE] :
       lay \in lays,
       hw \in {d \in CavernHeights \X CavernWidths :
                 \A l \in lays : LayoutFits(l, d[1], d[2])}}

NoLayout == [rooms |-> {}, halls |-> {}, stairs |-> {}]

\* soft walls with light, hard walls without
LabyrinthLooks == {<<TRUE, TRUE>>, <<FALSE, FALSE>>}

LabyrinthInputs ==
    {[profile |-> "labyrinth", h |-> LabHeight + 2, w |-> LabWidth + 2,
      lay |-> NoLayout,
      opened |-> kruskal(order, 1, lab_sets(LabHeight, LabWidth), {},
                         LabHeight, LabWidth),
      soft |-> look[1], lit |-> look[2]] :
       order \in WallOrders(LabHeight * LabWidth), look \in LabyrinthLooks}

\* the cell c of the array once the builder has laid the level out over
\* the cell it found there
LaidOut(in, cell, c) ==
    IF in.profile = "default"
    THEN [feat |-> LayoutFeat(default_gen_fill(cell.feat, c), c, in.lay),
          info |-> cell.info \cup LayoutInfo(c, in.lay)]
    ELSE IF in.profile = "cavern"
    THEN [feat |-> LayoutFeat(init_cavern(cell.feat, c), c, in.lay),
          info |-> cell.info]
    ELSE LET f == labyrinth_fill(cell.feat, c, in.opened, in.h - 2,
                                 in.w - 2, in.soft)
         IN [feat |-> f,
             info |-> cell.info \cup
                         (IF in.lit /\ f = FEAT_FLOOR THEN {CAVE_GLOW}
                          ELSE {})]

\* cave_generate clears the array before the builders run
BuiltCell(in, old, c) == LaidOut(in, cave_clear(old), c)

\* the array before the first build: the level the player has left
StaleCell == [feat |-> FEAT_FLOOR, info |-> {CAVE_GLOW, CAVE_ROOM}]

BuiltFirst(in) ==
    [y \in ArrayRows |-> [x \in ArrayCols |->
       BuiltCell(in, StaleCell, <<y, x>>)]]

FeatOf(cells) == [y \in ArrayRows |-> [x \in ArrayCols |-> cells[y][x].feat]]
InfoOf(cells) == [y \in ArrayRows |-> [x \in ArrayCols |-> cells[y][x].info]]

\* ---- the repair pass ----

notRepair == <<genVars, roomVars, buildVars, levelRest, c_height, c_width,
               info, l_profile, extVars>>

ColorAt(c) == colors[c[1]][c[2]]

\* the labels in use
Labels == {ColorAt(c) : c \in LevelCells} \ {0}

CellsOf(label) == {c \in LevelCells : ColorAt(c) = label}

\* build_colors: every floor cell gets the label of its 4-connected
\* region, every other cell the label 0; counts[] holds the region sizes.
\* A region is labelled with the index of its first cell.
RegionLabel(reg) ==
    LET c == LeastCell(reg) IN lab_toi(c[1], c[2], c_width)

build_colors(c, regs) ==
    IF \E reg \in regs : c \in reg
    THEN RegionLabel(CHOOSE reg \in regs : c \in reg)
    ELSE 0

build_counts(i, regs) ==
    IF \E reg \in regs : RegionLabel(reg) = i
    THEN Cardinality(CHOOSE reg \in regs : RegionLabel(reg) = i)
    ELSE 0

BuildColors ==
    /\ l_pc = "build_colors"
    /\ \E regs \in {RegionsOf(FloorCells)} :
          /\ colors' = [y \in 0 .. c_height - 1 |-> [x \in 0 .. c_width - 1 |->
                          build_colors(<<y, x>>, regs)]]
          /\ counts' = [i \in 0 .. c_height * c_width - 1 |->
                          build_counts(i, regs)]
    /\ l_pc' = IF l_profile = "cavern" THEN "clear_small_regions"
               ELSE "join_regions"
    /\ UNCHANGED <<feat, regions_before, bridges>>
    /\ UNCHANGED notRepair

\* a clear_small_regions that keeps the regions of 4 cells and more
deleted_below_4(i) == counts[i] < 4

\* clear_small_regions: if (counts[i] < 9) { deleted[i] = 1; counts[i] = 0; }
deleted(i) == counts[i] < 9

\* ... if (!deleted[colors[i]]) continue;
\*     colors[i] = 0; cave_set_feat(c, y, x, FEAT_WALL_SOLID);
clear_small_regions(c) ==
    IF c \in Interior(c_height, c_width) /\ deleted(ColorAt(c))
    THEN [color |-> 0, feat |-> FEAT_WALL_SOLID]
    ELSE [color |-> ColorAt(c), feat |-> FeatAt(c)]

ClearSmallRegions ==
    /\ l_pc = "clear_small_regions"
    /\ counts' = [i \in DOMAIN counts |-> IF deleted(i) THEN 0 ELSE counts[i]]
    /\ colors' = [y \in DOMAIN colors |-> [x \in DOMAIN colors[y] |->
                    clear_small_regions(<<y, x>>).color]]
    /\ feat' = [y \in DOMAIN feat |-> [x \in DOMAIN feat[y] |->
                  IF <<y, x>> \in LevelCells
                  THEN clear_small_regions(<<y, x>>).feat
                  ELSE feat[y][x]]]
    /\ l_pc' = "join_regions"
    /\ UNCHANGED <<regions_before, bridges>>
    /\ UNCHANGED notRepair

Between(a, b) == IF a <= b THEN a .. b ELSE b .. a

\* only the first leg of the corridor
LPathFirstLeg(a, b, rowfirst) ==
    IF rowfirst
    THEN {<<a[1], x>> : x \in Between(a[2], b[2])}
    ELSE {<<y, a[2]>> : y \in Between(a[1], b[1])}

\* the monotone L-shaped corridor from cell a to cell b
LPath(a, b, rowfirst) ==
    IF rowfirst
    THEN {<<a[1], x>> : x \in Between(a[2], b[2])}
            \cup {<<y, b[2]>> : y \in Between(a[1], b[1])}
    ELSE {<<y, a[2]>> : y \in Between(a[1], b[1])}
            \cup {<<b[1], x>> : x \in Between(a[2], b[2])}

\* join_regions, one round of its loop: a corridor from a cell of region
\* la to a cell of region lb; the crossed cells become floor and every
\* region the corridor touches takes the label la
JoinRegionsStep ==
    /\ l_pc = "join_regions"
    /\ Cardinality(Labels) > 1
    /\ \E la \in Labels, lb \in Labels, rowfirst \in BOOLEAN :
          /\ la # lb
          /\ \E a \in Pick(CellsOf(la)), b \in Pick(CellsOf(lb)) :
             \E path \in {LPath(a, b, rowfirst)} :
             \E merged \in {{la, lb} \cup ({ColorAt(c) : c \in path} \ {0})} :
                /\ feat' = [y \in DOMAIN feat |-> [x \in DOMAIN feat[y] |->
                              IF <<y, x>> \in path THEN FEAT_FLOOR
                              ELSE feat[y][x]]]
                /\ colors' = [y \in DOMAIN colors |->
                                [x \in DOMAIN colors[y] |->
                                   IF <<y, x>> \in path
                                         \/ colors[y][x] \in merged
                                   THEN la ELSE colors[y][x]]]
                /\ counts' = [i \in DOMAIN counts |->
                                IF i = la
                                THEN Cardinality(
                                        path \cup UNION {CellsOf(l) :
                                                           l \in merged})
                                ELSE IF i \in merged THEN 0 ELSE counts[i]]
    /\ regions_before' = Cardinality(Labels)
    /\ bridges' = bridges + 1
    /\ UNCHANGED l_pc
    /\ UNCHANGED notRepair

\* join_regions returns when one region is left
JoinRegionsDone ==
    /\ l_pc = "join_regions"
    /\ Cardinality(Labels) <= 1
    /\ l_pc' = "joined"
    /\ UNCHANGED <<feat, colors, counts, regions_before, bridges>>
    /\ UNCHANGED notRepair

RepairInit ==
    /\ \E in \in DefaultInputs(DefaultBroken) \cup CavernInputs(CavernBroken) :
       \E cells \in {BuiltFirst(in)} :
          /\ l_profile = in.profile
          /\ c_height = in.h
          /\ c_width = in.w
          /\ feat = FeatOf(cells)
          /\ info = InfoOf(cells)
    /\ l_pc = "build_colors"
    /\ RepairIdle
    /\ LevelRestIdle

NextRepair ==
    \/ BuildColors
    \/ ClearSmallRegions
    \/ JoinRegionsStep
    \/ JoinRegionsDone

InitRepair == RepairInit /\ GenIdle /\ RoomIdle /\ BuildIdle /\ ExtIdle

SpecRepair == InitRepair /\ [][NextRepair]_vars

-----------------------------------------------------------------------------
(* Level contents: stairs, doors, rubble, traps and the player's spot      *)

\* ---- levels whose layout is finished and hangs together ----
RoomStair == <<1, 2>>

DefaultLevels ==
    {[rooms |-> {RoomA, RoomB}, halls |-> HallAB, stairs |-> {}],
     [rooms |-> {RoomA, RoomB}, halls |-> HallAB,
      stairs |-> {<<RoomStair, FEAT_MORE>>}],
     [rooms |-> {RoomA, RoomB}, halls |-> HallAB,
      stairs |-> {<<RoomStair, FEAT_LESS>>}]}

CavernLevels ==
    {[rooms |-> {}, halls |-> {BlobA, BlobB, BlobAB}, stairs |-> {}],
     [rooms |-> {}, halls |-> {<<1, 1, 4, 7>>}, stairs |-> {}]}

\* ---- predicates of cave.c ----
WallFeats ==
    {FEAT_SECRET, FEAT_RUBBLE, FEAT_WALL_EXTRA, FEAT_WALL_INNER,
     FEAT_WALL_OUTER, FEAT_WALL_SOLID, FEAT_PERM_INNER, FEAT_PERM_SOLID}

cave_iswall(c) == FeatAt(c) \in WallFeats

\* a floor cell with no object and no monster (the player is one)
cave_isempty(c) == cave_isfloor(c) /\ c # p_pos

cave_isvault(c) == CAVE_ICKY \in info[c[1]][c[2]]

cave_isstart(c) == cave_isempty(c) /\ ~cave_isvault(c)

next_to_walls(c) == Cardinality({d \in Adjacent4(c) : cave_iswall(d)})

\* the cells find_empty can return
EmptyCells == {c \in LevelCells : cave_isempty(c)}

\* place_stairs that ignores the depth
place_stairs_as_asked(f) == f

\* place_stairs(c, y, x, feat) below the town
place_stairs(f) == IF only_up THEN FEAT_LESS ELSE f

SET_CORR == 1
SET_ROOM == 2
SET_BOTH == 3

\* alloc_object: "if (set & SET_CORR && !room) break;
\*                if (set & SET_ROOM && room) break;"
SetAllows(set, c) ==
    LET room == CAVE_ROOM \in info[c[1]][c[2]]
    IN \/ set \in {SET_CORR, SET_BOTH} /\ ~room
       \/ set \in {SET_ROOM, SET_BOTH} /\ room

\* rubble that is a wall
place_rubble_wall == FEAT_WALL_EXTRA

\* place_rubble: cave_set_feat(c, y, x, FEAT_RUBBLE)
place_rubble == FEAT_RUBBLE

\* place_trap leaves a trap in the cell
place_trap == FEAT_TRAP

\* place_closed_door: FEAT_DOOR_HEAD + lock or jam level
place_closed_door == FEAT_DOOR_HEAD

SetFeat(c, f) ==
    [y \in DOMAIN feat |-> [x \in DOMAIN feat[y] |->
       cave_set_feat(feat[y][x], <<y, x>>, c[1], c[2], f)]]

\* ---- the random draws ----

\* a draw is 0, 1 or 2; rand_range(a, b) and randint1(k) take their least
\* value on 0 and their greatest value otherwise; a random cell is the
\* first of its candidates on 0 and the last on 1; on 2 every try of a
\* round of tries picks a cell that does not qualify, if there is one.
\* The stream repeats.
RngStreams ==
    {<<0>>, <<1>>, <<0, 1>>, <<1, 0>>, <<2, 0>>, <<1, 2>>, <<0, 0, 1>>,
     <<1, 1, 0, 2>>}

Draw == Head(rng)

Rand == rng' = Tail(rng) \o <<Head(rng)>>

rand_range(a, b) == IF Draw = 0 THEN a ELSE b

randint1(k) == IF Draw = 0 THEN 1 ELSE k

\* the cell a random search among the candidates S comes up with
Found(S) == IF Draw = 1 THEN GreatestCell(S) ELSE LeastCell(S)

\* ---- the steps of the builders after the layout ----

notLevel == <<genVars, roomVars, buildVars, repairVars, c_height, c_width,
              info, l_profile, l_input, only_up, came_down, came_up,
              rng_start, feat_start, run, first, birth_no_stairs, extVars>>

\* default_gen: alloc_stairs(c, FEAT_MORE, rand_range(3, 4), 3)
\*              alloc_stairs(c, FEAT_LESS, rand_range(1, 2), 3)
\* cavern_gen:  alloc_stairs(c, FEAT_MORE, rand_range(1, 3), 3)
\*              alloc_stairs(c, FEAT_LESS, rand_range(1, 2), 3)
\* labyrinth_gen: alloc_stairs(c, FEAT_MORE, 1, 3) and (c, FEAT_LESS, 1, 3)
StairsAsked(profile, f) ==
    IF profile = "default"
    THEN IF f = FEAT_MORE THEN rand_range(3, 4) ELSE rand_range(1, 2)
    ELSE IF profile = "cavern"
    THEN IF f = FEAT_MORE THEN rand_range(1, 3) ELSE rand_range(1, 2)
    ELSE 1

\* k = MAX(MIN(c->depth / 3, 10), 2) at the depths where it is least
ObjectsMax == 2

\* labyrinth_gen: "for (i = n / 100; i > 0; i--)", one door for every
\* 100 squares; scaled to the small labyrinth
SquaresPerDoor == 8

\* where a builder goes on when a placement loop is through
AfterLoop(pc) ==
    IF pc = "stairs_more"
    THEN IF l_profile = "labyrinth" /\ ~birth_no_stairs
         THEN "doors_begin" ELSE "stairs_less_begin"
    ELSE IF pc = "stairs_less"
    THEN IF l_profile = "labyrinth" THEN "doors_begin" ELSE "rubble_begin"
    ELSE IF pc = "doors" THEN "rubble_begin"
    ELSE IF pc = "rubble" THEN "traps_begin"
    ELSE IF l_profile = "labyrinth" THEN "done" ELSE "player"

StairOf(pc) == IF pc = "stairs_more" THEN FEAT_MORE ELSE FEAT_LESS

\* alloc_stairs(c, feat, num, walls) is called
AllocStairsBegin ==
    /\ l_pc \in {"stairs_more_begin", "stairs_less_begin"}
    /\ \E loop \in {IF l_pc = "stairs_more_begin" THEN "stairs_more"
                    ELSE "stairs_less"} :
          /\ todo' = StairsAsked(l_profile, StairOf(loop))
          /\ l_pc' = loop
    /\ need_walls' = 3
    /\ Rand
    /\ UNCHANGED <<feat, p_pos, create_down_stair, create_up_stair>>
    /\ UNCHANGED notLevel

\* "if (walls) walls--;"
FewerWalls == IF need_walls > 0 THEN need_walls - 1 ELSE need_walls

\* any empty cell will do
StairCells_any == EmptyCells

\* the empty cells with enough walls around them
StairCells == {e \in EmptyCells : next_to_walls(e) >= need_walls}

\* all 1001 tries of a round come up with cells with too few walls
StairRoundFails ==
    /\ EmptyCells \ StairCells # {}
    /\ StairCells = {} \/ Draw = 2

\* alloc_stairs: one of the 1001 tries of a round finds an empty cell
\* with enough walls around it; the stair is placed (walls is a local
\* of alloc_stairs and is gone when the call returns)
AllocStairsPlace ==
    /\ l_pc \in {"stairs_more", "stairs_less"}
    /\ todo > 0
    /\ StairCells # {}
    /\ ~StairRoundFails
    /\ feat' = SetFeat(Found(StairCells), place_stairs(StairOf(l_pc)))
    /\ need_walls' = IF todo = 1 THEN 0 ELSE FewerWalls
    /\ todo' = todo - 1
    /\ l_pc' = IF todo = 1 THEN AfterLoop(l_pc) ELSE l_pc
    /\ Rand
    /\ UNCHANGED <<p_pos, create_down_stair, create_up_stair>>
    /\ UNCHANGED notLevel

\* alloc_stairs: a round of 1001 tries fails, fewer walls are asked for
AllocStairsRetry ==
    /\ l_pc \in {"stairs_more", "stairs_less"}
    /\ todo > 0
    /\ StairRoundFails
    /\ need_walls' = FewerWalls
    /\ Rand
    /\ UNCHANGED <<feat, todo, l_pc, p_pos, create_down_stair,
                   create_up_stair>>
    /\ UNCHANGED notLevel

\* labyrinth_gen: the doors
DoorsBegin ==
    /\ l_pc = "doors_begin"
    /\ \E n \in {((c_height - 2) * (c_width - 2)) \div SquaresPerDoor} :
          /\ todo' = n
          /\ l_pc' = IF n = 0 THEN AfterLoop("doors") ELSE "doors"
    /\ UNCHANGED <<feat, rng, need_walls, p_pos, create_down_stair,
                   create_up_stair>>
    /\ UNCHANGED notLevel

\* up to 10 times find_empty, then place_closed_door on the cell found
\* last, a tunnel or not
PlaceDoor ==
    /\ l_pc = "doors"
    /\ todo > 0
    /\ EmptyCells # {}
    /\ feat' = SetFeat(Found(EmptyCells), place_closed_door)
    /\ todo' = todo - 1
    /\ l_pc' = IF todo = 1 THEN AfterLoop(l_pc) ELSE l_pc
    /\ Rand
    /\ UNCHANGED <<need_walls, p_pos, create_down_stair, create_up_stair>>
    /\ UNCHANGED notLevel

\* default_gen: alloc_objects(c, SET_CORR, TYP_RUBBLE, randint1(k), ...)
\*              alloc_objects(c, SET_BOTH, TYP_TRAP, randint1(k), ...)
\* cavern_gen and labyrinth_gen: SET_BOTH for both
SetOf(pc) ==
    IF pc = "rubble" /\ l_profile = "default" THEN SET_CORR ELSE SET_BOTH

AllocObjectsBegin ==
    /\ l_pc \in {"rubble_begin", "traps_begin"}
    /\ todo' = randint1(ObjectsMax)
    /\ l_pc' = IF l_pc = "rubble_begin" THEN "rubble" ELSE "traps"
    /\ Rand
    /\ UNCHANGED <<feat, need_walls, p_pos, create_down_stair,
                   create_up_stair>>
    /\ UNCHANGED notLevel

\* the empty cells the set allows
ObjectCells == {e \in EmptyCells : SetAllows(SetOf(l_pc), e)}

\* all 2000 tries come up with empty cells the set does not allow
ObjectTriesFail ==
    /\ EmptyCells \ ObjectCells # {}
    /\ ObjectCells = {} \/ Draw = 2

\* alloc_object finds an empty cell the set allows
AllocObjectPlace ==
    /\ l_pc \in {"rubble", "traps"}
    /\ todo > 0
    /\ ObjectCells # {}
    /\ ~ObjectTriesFail
    /\ feat' = SetFeat(Found(ObjectCells),
                       IF l_pc = "rubble" THEN place_rubble ELSE place_trap)
    /\ todo' = todo - 1
    /\ l_pc' = IF todo = 1 THEN AfterLoop(l_pc) ELSE l_pc
    /\ Rand
    /\ UNCHANGED <<need_walls, p_pos, create_down_stair, create_up_stair>>
    /\ UNCHANGED notLevel

\* alloc_object: "if (tries == 2000) return FALSE;"
AllocObjectFails ==
    /\ l_pc \in {"rubble", "traps"}
    /\ todo > 0
    /\ ObjectTriesFail
    /\ todo' = todo - 1
    /\ l_pc' = IF todo = 1 THEN AfterLoop(l_pc) ELSE l_pc
    /\ Rand
    /\ UNCHANGED <<feat, need_walls, p_pos, create_down_stair,
                   create_up_stair>>
    /\ UNCHANGED notLevel

\* new_player_spot that makes the stairs whatever the birth option says
new_player_spot_no_option(c) ==
    /\ IF create_down_stair
       THEN /\ feat' = SetFeat(c, FEAT_MORE)
            /\ create_down_stair' = FALSE
            /\ UNCHANGED create_up_stair
       ELSE IF create_up_stair
       THEN /\ feat' = SetFeat(c, FEAT_LESS)
            /\ create_up_stair' = FALSE
            /\ UNCHANGED create_down_stair
       ELSE UNCHANGED <<feat, create_down_stair, create_up_stair>>
    /\ p_pos' = c

\* new_player_spot(c, p) with the starting cell c
new_player_spot(c) ==
    /\ IF birth_no_stairs
       THEN UNCHANGED <<feat, create_down_stair, create_up_stair>>
       ELSE IF create_down_stair
       THEN /\ feat' = SetFeat(c, FEAT_MORE)
            /\ create_down_stair' = FALSE
            /\ UNCHANGED create_up_stair
       ELSE IF create_up_stair
       THEN /\ feat' = SetFeat(c, FEAT_LESS)
            /\ create_up_stair' = FALSE
            /\ UNCHANGED create_down_stair
       ELSE UNCHANGED <<feat, create_down_stair, create_up_stair>>
    /\ p_pos' = c

StartCells == {e \in LevelCells : cave_isstart(e)}

NewPlayerSpot ==
    /\ l_pc = "player"
    /\ StartCells # {}
    /\ new_player_spot(Found(StartCells))
    /\ l_pc' = IF l_profile = "labyrinth" THEN "lab_stairs" ELSE "done"
    /\ Rand
    /\ UNCHANGED <<todo, need_walls>>
    /\ UNCHANGED notLevel

\* labyrinth_gen: "if (OPT(birth_no_stairs)) ... else if
\* (p->create_down_stair) ... else ..."
LabyrinthStairs ==
    /\ l_pc = "lab_stairs"
    /\ l_pc' = IF birth_no_stairs THEN "stairs_more_begin"
               ELSE IF create_down_stair THEN "stairs_less_begin"
               ELSE "stairs_more_begin"
    /\ UNCHANGED <<feat, rng, todo, need_walls, p_pos, create_down_stair,
                   create_up_stair>>
    /\ UNCHANGED notLevel

\* the player's request: neither flag, or one of the two
PlayerRequests == {<<FALSE, FALSE>>, <<TRUE, FALSE>>, <<FALSE, TRUE>>}

LevelInputs ==
    DefaultInputs(DefaultLevels) \cup CavernInputs(CavernLevels)
       \cup LabyrinthInputs

FirstPc(profile) ==
    IF profile = "labyrinth" THEN "player" ELSE "stairs_more_begin"

\* the player's mark stays in the cave
cave_clear_player_stays(pos) == pos

\* cave_clear: "p->px = p->py = 0", and no cell holds the player
cave_clear_player(pos) == <<>>

\* the same level is built once more: the game is back where it was
\* before the first build, with the same random draws, the same depth
\* and the same request of the player; the array holds the first level,
\* and the birth option is what the player has set by now
GenerateAgain ==
    /\ l_pc = "done"
    /\ run = 1
    /\ run' = 2
    /\ first' = [feat |-> feat, info |-> info, p_pos |-> p_pos,
                 birth_no_stairs |-> birth_no_stairs]
    /\ \E cells \in {[y \in ArrayRows |-> [x \in ArrayCols |->
                        BuiltCell(l_input,
                                  [feat |-> feat[y][x], info |-> info[y][x]],
                                  <<y, x>>)]]} :
          /\ feat' = FeatOf(cells)
          /\ info' = InfoOf(cells)
          /\ feat_start' = FeatOf(cells)
    /\ p_pos' = cave_clear_player(p_pos)
    /\ rng' = rng_start
    /\ create_down_stair' = came_down
    /\ create_up_stair' = came_up
    /\ birth_no_stairs' \in BOOLEAN
    /\ l_pc' = FirstPc(l_profile)
    /\ todo' = 0
    /\ need_walls' = 0
    /\ UNCHANGED <<genVars, roomVars, buildVars, repairVars, extVars, c_height,
                   c_width, l_profile, l_input, only_up, came_down, came_up,
                   rng_start>>

LevelInit ==
    /\ \E in \in LevelInputs :
       \E cells \in {BuiltFirst(in)} :
          /\ l_input = in
          /\ l_profile = in.profile
          /\ c_height = in.h
          /\ c_width = in.w
          /\ feat = FeatOf(cells)
          /\ info = InfoOf(cells)
          /\ only_up \in {b \in BOOLEAN :
                            b => \A s \in in.lay.stairs : s[2] = FEAT_LESS}
    /\ l_pc = FirstPc(l_profile)
    /\ rng \in RngStreams
    /\ rng_start = rng
    /\ birth_no_stairs \in BOOLEAN
    /\ \E req \in PlayerRequests :
          /\ create_down_stair = req[1] /\ create_up_stair = req[2]
          /\ came_down = req[1] /\ came_up = req[2]
    /\ p_pos = <<>>
    /\ todo = 0
    /\ need_walls = 0
    /\ feat_start = feat
    /\ run = 1
    /\ first = <<>>
    /\ RepairIdle

NextLevel ==
    \/ AllocStairsBegin
    \/ AllocStairsPlace
    \/ AllocStairsRetry
    \/ DoorsBegin
    \/ PlaceDoor
    \/ AllocObjectsBegin
    \/ AllocObjectPlace
    \/ AllocObjectFails
    \/ NewPlayerSpot
    \/ LabyrinthStairs
    \/ GenerateAgain

InitLevel == LevelInit /\ GenIdle /\ RoomIdle /\ BuildIdle /\ ExtIdle

SpecLevel == InitLevel /\ [][NextLevel]_vars

-----------------------------------------------------------------------------
(* C1: cave_generate runs at most 100 attempts; it commits the first       *)
(* attempt that ends without an object or monster overflow                 *)
(* (character_dungeon is TRUE only after that commit), and when all 100    *)
(* attempts overflow it aborts without committing a level.                 *)
C1_RetryBudget ==
    /\ tries <= MAX_TRIES
    /\ overflows <= tries
    /\ (gen_pc \notin {"for_test", "exit", "committed", "quit"})
          => (tries < MAX_TRIES /\ overflows = tries)
    /\ (gen_pc # "committed" /\ (tries > 0 \/ gen_pc # "for_test"))
          => ~character_dungeon
    /\ gen_pc = "committed"
          => /\ character_dungeon
             /\ error = NULL
             /\ tries >= 1
             /\ overflows = tries - 1
             /\ built_by # "none"
    /\ gen_pc = "quit"
          => /\ tries = MAX_TRIES
             /\ overflows = MAX_TRIES
             /\ error # NULL
             /\ ~character_dungeon

\* all 100 attempts overflowed and the process aborts
C1_Witness == gen_pc = "quit" /\ tries = MAX_TRIES /\ overflows = MAX_TRIES

(* C8: a successful room_build marks only blocks that no earlier room had  *)
(* marked and that lie inside [0,row_rooms) x [0,col_rooms); so no block   *)
(* is ever reserved by two rooms of one level attempt.                     *)
C8_NoSharedBlock ==
    /\ \A b \in Blocks : reserved_cnt[b] <= 1 /\ (room_map[b] <=> reserved_cnt[b] = 1)
    /\ (last_call.op = "room_build" /\ last_call.result)
          => /\ last_call.premarked = {}
             /\ last_call.marked \subseteq
                   (0 .. row_rooms - 1) \X (0 .. col_rooms - 1)
             /\ last_call.marked # {}

\* a second room has been built next to a first one
C8_Witness ==
    /\ last_call.op = "room_build" /\ last_call.result
    /\ cent_n >= 2
    /\ Cardinality(UsedBlocks) > Cardinality(last_call.marked)

(* C9: in one level attempt at most one crowded room (pit or nest) is      *)
(* built: dun->crowded is set at most once and room_build never clears     *)
(* it, and while it is set every room_build with a crowded profile         *)
(* returns FALSE without calling the builder.                              *)
C9_OneCrowdedRoom ==
    /\ crowded_built <= 1
    /\ crowded <=> crowded_built = 1
    /\ last_call.op = "room_build"
          => /\ last_call.crowded_before => crowded
             /\ (last_call.crowded_before /\ last_call.crowded_profile)
                  => /\ ~last_call.builder_called
                     /\ ~last_call.result
                     /\ last_call.why \in {"level", "crowded"}

\* a crowded profile is refused on a level that already has a crowded room
C9_Witness ==
    /\ last_call.op = "room_build"
    /\ last_call.crowded_before /\ last_call.crowded_profile
    /\ last_call.why = "crowded"
    /\ crowded_built = 1

(* C10: whenever a room builder invoked through room_build returns FALSE,  *)
(* the feature and the info flags of every cell are what they were before  *)
(* the builder was called.                                                 *)
C10_FailedBuilderLeavesGrid ==
    (last_call.op = "room_build" /\ last_call.why = "builder")
       => (feat = feat_before /\ info = info_before)

\* the symbol of the vault text that lies over the cell c, " " when none
\* does: the text is laid out row by row from the corner
\* <<y0 - ymax / 2, x0 - xmax / 2>>
StampedSymbol(c) ==
    LET ymax == Len(stamp.data)
        xmax == Len(stamp.data[1])
        row == c[1] - stamp.y0 + ymax \div 2 + 1
        col == c[2] - stamp.x0 + xmax \div 2 + 1
    IN IF row \in 1 .. ymax /\ col \in 1 .. xmax
       THEN stamp.data[row][col] ELSE " "

\* C15: after build_vault has stamped a vault text, every cell under a
\* symbol other than " " has CAVE_ROOM, and has CAVE_ICKY exactly when its
\* symbol is not "%"; the cells under " " are as they were.
C15_VaultFlags ==
    stamp # <<>> =>
       \A c \in Rows \X Cols :
          IF StampedSymbol(c) = " "
          THEN /\ feat[c[1]][c[2]] = feat_before[c[1]][c[2]]
               /\ info[c[1]][c[2]] = info_before[c[1]][c[2]]
          ELSE /\ CAVE_ROOM \in info[c[1]][c[2]]
               /\ (CAVE_ICKY \in info[c[1]][c[2]]) <=> (StampedSymbol(c) # "%")

\* a vault with doorstep walls, inner cells and non-grids has been stamped
C15_Witness ==
    /\ stamp # <<>>
    /\ last_call.result
    /\ \E c \in Rows \X Cols : StampedSymbol(c) = "%"
    /\ \E c \in Rows \X Cols : StampedSymbol(c) = "9"
    /\ stamp.data[1][1] = " "

(* C3: when the connectivity repair has finished (ensure_connectedness in  *)
(* the default builder; build_colors, clear_small_regions and join_regions *)
(* in the cavern builder) all floor cells of the level form one            *)
(* 4-connected region, whatever layout the pass began with; and every      *)
(* corridor the pass has carved left fewer regions than there were before  *)
(* it, which is why the pass ends.                                         *)
C3_OneRegionAfterRepair ==
    /\ l_pc = "joined" => Connected(FloorCells)
    /\ bridges > 0 => Cardinality(Labels) < regions_before
    /\ l_pc \in {"join_regions", "joined"} =>
          \A c \in LevelCells : (ColorAt(c) # 0) <=> cave_isfloor(c)

C3_Witness ==
    /\ l_pc = "joined"
    /\ bridges >= 2
    /\ FloorCells # {}

\* the number of cells of the level that hold the feature f
NumFeat(f) == Cardinality({c \in LevelCells : FeatAt(c) = f})

NumFeatAtStart(f) ==
    Cardinality({c \in LevelCells : feat_start[c[1]][c[2]] = f})

\* the cells the player can walk or dig through without leaving the
\* corridors: floor, doors, stairs, rubble, traps
OpenFeats ==
    {FEAT_FLOOR, FEAT_DOOR_HEAD, FEAT_MORE, FEAT_LESS, FEAT_RUBBLE,
     FEAT_TRAP}

C4_BorderPermanent ==
    \A c \in LevelCells :
       OnEdge(c, 0, 0, c_height - 1, c_width - 1)
          => FeatAt(c) = FEAT_PERM_SOLID

ConnectedDown == IF ~birth_no_stairs /\ came_down THEN 1 ELSE 0
ConnectedUp == IF ~birth_no_stairs /\ ~came_down /\ came_up THEN 1 ELSE 0

C7_LabyrinthOneUpOneDown ==
    (l_pc = "done" /\ l_profile = "labyrinth") =>
       (NumFeat(FEAT_MORE) = 1 /\ NumFeat(FEAT_LESS) = 1)

\* the second build has ended with the level the first build ended with
SameLevel ==
    /\ feat = first.feat
    /\ info = first.info
    /\ p_pos = first.p_pos

FeatUnderPlayer ==
    IF birth_no_stairs THEN FEAT_FLOOR
    ELSE IF came_down THEN FEAT_MORE
    ELSE IF came_up THEN FEAT_LESS
    ELSE FEAT_FLOOR

InStairs == l_profile = "default" /\ l_pc \in {"stairs_more", "stairs_less"}

\* the cells whose feature a step changes
Placed == {c \in LevelCells : feat'[c[1]][c[2]] # feat[c[1]][c[2]]}

\* a step of alloc_stairs in a default level, when every staircase has to
\* have w walls beside it: every cell it changes was an empty floor cell
\* with w walls or more beside it and is a staircase now; it places one
\* staircase or none and counts the ones it places; the call is over
\* exactly when the number asked for is reached; and a step that places
\* nothing asks for fewer walls, so that the steps of a call come to an end
StairStep(w) ==
    InStairs =>
       /\ \A c \in Placed :
             /\ cave_isempty(c)
             /\ next_to_walls(c) >= w
             /\ feat'[c[1]][c[2]] \in {FEAT_LESS, FEAT_MORE}
       /\ todo' \in {todo, todo - 1}
       /\ Cardinality(Placed) = todo - todo'
       /\ (l_pc' # l_pc) <=> (todo' = 0)
       /\ todo' = todo => need_walls' < need_walls

\* alloc_stairs is called with the number of staircases of default_gen
StairsCalled ==
    (l_profile = "default"
        /\ l_pc \in {"stairs_more_begin", "stairs_less_begin"}) =>
       /\ todo' \in 1 .. 4
       /\ need_walls' = 3
       /\ feat' = feat

(* C25 as stated: every staircase alloc_stairs places in a default level   *)
(* goes on a cell that was an empty floor cell with at least 3 wall cells  *)
(* orthogonally beside it, and the call ends with exactly the number of    *)
(* staircases asked for.                                                   *)
C25_StairsBesideThreeWalls ==
    /\ [][StairsCalled /\ StairStep(3)]_vars
    /\ [](InStairs => todo > 0 /\ EmptyCells # {})

(* C25, amended: every staircase alloc_stairs places in a default level    *)
(* goes on a cell that was an empty floor cell with at least as many wall  *)
(* cells orthogonally beside it as the call asks for at that moment: 3     *)
(* in its first round of searches and one fewer, down to 0, after every    *)
(* round, whether the round placed a staircase or failed; the call ends    *)
(* with exactly the number of staircases asked for.                        *)
C25_StairsBesideWallsAsked ==
    /\ [][StairsCalled /\ StairStep(need_walls)]_vars
    /\ [](InStairs => todo > 0 /\ EmptyCells # {})

\* two staircases of a call are placed and one of them has fewer than 2
\* walls beside it
C25_Witness ==
    /\ InStairs
    /\ l_pc = "stairs_more"
    /\ todo = 1
    /\ need_walls = 0
    /\ \E c \in LevelCells :
          /\ FeatAt(c) \in {FEAT_LESS, FEAT_MORE}
          /\ feat_start[c[1]][c[2]] = FEAT_FLOOR
          /\ next_to_walls(c) < 2

-----------------------------------------------------------------------------
(* The builders of one generation attempt acting on the cave               *)

\* the attempts of cave_generate that are followed on the cave
AttemptsFollowed == 2

\* p->depth below the town
ProfileDepths == DepthValues \ {0}

notProfiles == <<moreVars, roomVars, buildVars, repairVars, levelVars, tunVars,
                 vaultVars, townVars, cavVars, mazeVars, gvVars,
                 character_dungeon, overflows>>

\* cave_clear over the whole array
ClearedArray ==
    [y \in ArrayRows |-> [x \in ArrayCols |-> cave_clear(StaleCell)]]

\* count_open_squares on a cavern that has the layout lay
count_open_squares(lay, h, w) ==
    Cardinality({c \in Interior(h, w) : LayoutFloor(c, lay)})

\* caverns after the last mutate_cavern pass of a try: closed ones, and
\* open ones
CavernTries ==
    {NoLayout, [rooms |-> {}, halls |-> {<<2, 2, 2, 2>>}, stairs |-> {}]}
        \cup CavernLevels

\* the array once a builder has drawn the level of the input in over it
DrawnOver(in) ==
    [y \in ArrayRows |-> [x \in ArrayCols |->
       LaidOut(in, [feat |-> feat[y][x], info |-> info[y][x]], <<y, x>>)]]

ProfilesInit ==
    /\ depth \in ProfileDepths
    /\ tries = 0
    /\ error = "no generation"
    /\ character_dungeon = TRUE
    /\ gen_pc = "for_test"
    /\ perc = 0
    /\ profile_i = 0
    /\ built_by = "none"
    /\ overflows = 0
    \* the level the player has left
    /\ c_height \in {ARRAY_HGT} \cup CavernHeights
    /\ c_width = ARRAY_WID
    /\ feat = [y \in ArrayRows |-> [x \in ArrayCols |-> StaleCell.feat]]
    /\ info = [y \in ArrayRows |-> [x \in ArrayCols |-> StaleCell.info]]
    /\ at_clear = <<>>
    /\ failed = 0
    /\ built_in = <<>>

\* error = NULL; cave_clear(c, p); ... int perc = randint0(100);
ProfLoopEnter ==
    /\ gen_pc = "for_test"
    /\ LoopContinues
    /\ tries < AttemptsFollowed
    /\ error' = NULL
    /\ feat' = FeatOf(ClearedArray)
    /\ info' = InfoOf(ClearedArray)
    /\ at_clear' = <<c_height, c_width>>
    /\ failed' = 0
    /\ built_in' = <<>>
    /\ perc' \in PercValues
    /\ profile_i' = 0
    /\ built_by' = "none"
    /\ gen_pc' = "profiles"
    /\ UNCHANGED <<depth, tries, c_height, c_width>>
    /\ UNCHANGED notProfiles

\* if (i < last && profile->cutoff < perc) continue;
ProfSkip ==
    /\ gen_pc = "profiles"
    /\ profile_i < NUM_CAVE_PROFILES - 1
    /\ cave_profiles[profile_i + 1].cutoff < perc
    /\ profile_i' = profile_i + 1
    /\ UNCHANGED <<depth, tries, error, gen_pc, perc, built_by>>
    /\ UNCHANGED <<caveVars, dirVars>>
    /\ UNCHANGED notProfiles

\* ok = dun->profile->builder(c, p): the builder is entered
ProfCall ==
    /\ gen_pc = "profiles"
    /\ profile_i < NUM_CAVE_PROFILES
    /\ ~(/\ profile_i < NUM_CAVE_PROFILES - 1
         /\ cave_profiles[profile_i + 1].cutoff < perc)
    /\ gen_pc' = "builder"
    /\ UNCHANGED <<depth, tries, error, perc, profile_i, built_by>>
    /\ UNCHANGED <<caveVars, dirVars>>
    /\ UNCHANGED notProfiles

\* if (ok) break; or the next round of the profile loop
ProfReturn(ok, in) ==
    /\ IF ok
         THEN /\ built_by' = cave_profiles[profile_i + 1].name
              /\ built_in' = in
              /\ gen_pc' = "post"
              /\ UNCHANGED <<profile_i, failed>>
         ELSE /\ profile_i' = profile_i + 1
              /\ failed' = failed + 1
              /\ gen_pc' = "profiles"
              /\ UNCHANGED <<built_by, built_in>>
    /\ UNCHANGED <<depth, tries, error, perc, at_clear>>
    /\ UNCHANGED notProfiles

\* labyrinth_gen: the FALSE returns come before set_cave_dimensions
LabyrinthGen ==
    /\ gen_pc = "builder"
    /\ cave_profiles[profile_i + 1].name = "labyrinth"
    /\ \/ /\ depth >= 13
          /\ \E in \in LabyrinthInputs :
                /\ c_height' = in.h
                /\ c_width' = in.w
                /\ feat' = FeatOf(DrawnOver(in))
                /\ info' = InfoOf(DrawnOver(in))
                /\ ProfReturn(TRUE, in)
       \/ /\ UNCHANGED caveVars
          /\ ProfReturn(FALSE, <<>>)

\* cavern_gen: set_cave_dimensions, then the depth test, then the tries
CavernGen ==
    /\ gen_pc = "builder"
    /\ cave_profiles[profile_i + 1].name = "cavern"
    /\ \E h \in CavernHeights, w \in CavernWidths :
          /\ c_height' = h
          /\ c_width' = w
          /\ IF depth < 15
               THEN /\ UNCHANGED <<feat, info>>
                    /\ ProfReturn(FALSE, <<>>)
               ELSE \E lay \in {l \in CavernTries : LayoutFits(l, h, w)} :
                      LET in == [profile |-> "cavern", h |-> h, w |-> w,
                                 lay |-> lay, opened |-> {}, soft |-> FALSE,
                                 lit |-> FALSE]
                          limit == (h * w) \div 13
                      IN /\ feat' = FeatOf(DrawnOver(in))
                         /\ info' = InfoOf(DrawnOver(in))
                         /\ ProfReturn(count_open_squares(lay, h, w) >= limit,
                                       in)

\* default_gen: set_cave_dimensions(c, DUNGEON_HGT, DUNGEON_WID), the fill,
\* the rooms and the tunnels
DefaultGen ==
    /\ gen_pc = "builder"
    /\ cave_profiles[profile_i + 1].name = "default"
    /\ \E in \in DefaultInputs(DefaultLevels) :
          /\ c_height' = in.h
          /\ c_width' = in.w
          /\ feat' = FeatOf(DrawnOver(in))
          /\ info' = InfoOf(DrawnOver(in))
          /\ ProfReturn(TRUE, in)

\* the overflow checks and tries++
ProfPost ==
    /\ gen_pc = "post"
    /\ \E o \in ObjCounts, m \in MonCounts : error' = OverflowError(o, m)
    /\ tries' = tries + 1
    /\ gen_pc' = "for_test"
    /\ UNCHANGED <<depth, perc, profile_i, built_by>>
    /\ UNCHANGED <<caveVars, dirVars>>
    /\ UNCHANGED notProfiles

NextProfiles ==
    \/ ProfLoopEnter
    \/ ProfSkip
    \/ ProfCall
    \/ LabyrinthGen
    \/ CavernGen
    \/ DefaultGen
    \/ ProfPost

InitProfiles ==
    /\ ProfilesInit /\ MoreIdle /\ RoomIdle /\ BuildIdle /\ RepairIdle /\ LevelIdle
    /\ TunIdle /\ VaultIdle /\ TownIdle /\ CavIdle /\ MazeIdle
    /\ GvIdle

SpecProfiles == InitProfiles /\ [][NextProfiles]_vars

-----------------------------------------------------------------------------
(* Claims about the builders of one attempt                                *)

ArrayCells == ArrayRows \X ArrayCols

\* C11 (as stated): whenever a cave-profile builder returns FALSE the level
\* is cleared again before any builder runs on it: a builder that is entered
\* finds no failed builder since the last cave_clear, the dimensions that
\* cave_clear found, and a cleared grid.
C11_BuilderStartsCleared ==
    gen_pc = "builder" =>
       /\ failed = 0
       /\ <<c_height, c_width>> = at_clear
       /\ \A c \in ArrayCells :
             FeatAt(c) = FEAT_NONE /\ info[c[1]][c[2]] = {}

\* C11 (amended): the next builder runs without a cave_clear, but the
\* builder that returns TRUE has set the dimensions itself and has written
\* every cell of the array: the level it returns is the one it draws on a
\* cleared array.
C11_ReturnedLevelAsFromCleared ==
    gen_pc = "post" =>
       /\ <<c_height, c_width>> = <<built_in.h, built_in.w>>
       /\ \A c \in ArrayCells :
             LET drawn == LaidOut(built_in, cave_clear(StaleCell), c)
             IN FeatAt(c) = drawn.feat /\ info[c[1]][c[2]] = drawn.info

\* default_gen has returned the level after cavern_gen had drawn a cavern
\* and returned FALSE
C11_Witness ==
    /\ gen_pc = "post"
    /\ built_by = "default"
    /\ failed = 2
    /\ depth >= 15
    /\ at_clear # <<c_height, c_width>>

-----------------------------------------------------------------------------
(* The tunnels of default_gen: build_tunnel between the room centres       *)

\* "if (main_loop_count++ > 2000) break;": the steps one tunnel is followed
\* for (2000 in the code)
MAIN_LOOP_MAX == 8

\* the random rolls of the rounds of a tunnel give one direction each; they
\* are followed for TurnsLen rounds and then come again
TurnsLen == 3

\* #define WALL_MAX 500, TUNN_MAX 900, DOOR_MAX 200
WALL_MAX == 500
TUNN_MAX == 900
DOOR_MAX == 200

\* tunnel-default: {rnd, chg, con, pen, jct} = {10, 30, 15, 25, 90}; the
\* early end of a tunnel needs a distance above 10 from its start
TUN_FAR == 10

FEAT_PERM_OUTER == "FEAT_PERM_OUTER"
FEAT_OPEN == "FEAT_OPEN"

notTunnels == <<moreVars, genVars, roomVars, buildVars, repairVars, levelVars, dirVars,
                vaultVars, townVars, cavVars, mazeVars, gvVars,
                c_height, c_width, info, cent>>

\* ---- rooms on the small array: interior <<y1, x1, y2, x2>>, the inner
\* walls (pillars) and the centre ----
TunnelRooms ==
    {<<[in |-> <<2, 2, 2, 2>>, pillars |-> {}, centre |-> <<2, 2>>],
       [in |-> <<2, 6, 2, 6>>, pillars |-> {}, centre |-> <<2, 6>>]>>,
     <<[in |-> <<2, 2, 2, 2>>, pillars |-> {}, centre |-> <<2, 2>>],
       [in |-> <<5, 3, 5, 3>>, pillars |-> {}, centre |-> <<5, 3>>]>>,
     <<[in |-> <<2, 2, 2, 4>>, pillars |-> {<<2, 3>>}, centre |-> <<2, 2>>],
       [in |-> <<5, 8, 5, 8>>, pillars |-> {}, centre |-> <<5, 8>>]>>}

\* the cell c once the rooms of the sequence rs are built over the granite:
\* generate_room, draw_rectangle(FEAT_WALL_OUTER), fill_rectangle(FEAT_FLOOR),
\* the inner walls, and then the permanent walls around the edge
RECURSIVE RoomsCell(_, _, _)
RoomsCell(rs, cell, c) ==
    IF rs = <<>> THEN cell
    ELSE LET r == Head(rs)
             y1 == r.in[1]
             x1 == r.in[2]
             y2 == r.in[3]
             x2 == r.in[4]
             walls == draw_rectangle(cell.feat, c, y1 - 1, x1 - 1, y2 + 1,
                                     x2 + 1, FEAT_WALL_OUTER)
             floors == fill_rectangle(walls, c, y1, x1, y2, x2, FEAT_FLOOR)
         IN RoomsCell(Tail(rs),
                      [feat |-> IF c \in r.pillars THEN FEAT_WALL_INNER
                                ELSE floors,
                       info |-> generate_room(cell.info, c, y1 - 1, x1 - 1,
                                              y2 + 1, x2 + 1, FALSE)],
                      c)

RoomsBuilt(rs) ==
    [y \in ArrayRows |-> [x \in ArrayCols |->
       LET granite == [feat |-> fill_rectangle(FEAT_NONE, <<y, x>>, 0, 0,
                                               ARRAY_HGT - 1, ARRAY_WID - 1,
                                               FEAT_WALL_EXTRA),
                       info |-> {}]
           rooms == RoomsCell(rs, granite, <<y, x>>)
       IN [feat |-> draw_rectangle(rooms.feat, <<y, x>>, 0, 0, ARRAY_HGT - 1,
                                   ARRAY_WID - 1, FEAT_PERM_SOLID),
           info |-> rooms.info]]]

\* ---- predicates and helpers ----
\* cave_isperm: the features from FEAT_PERM_EXTRA on
PermFeats == {FEAT_PERM_INNER, FEAT_PERM_OUTER, FEAT_PERM_SOLID}

\* c->feat[y][x] >= FEAT_WALL_EXTRA
IsHardWall(f) ==
    f \in {FEAT_WALL_EXTRA, FEAT_WALL_INNER, FEAT_WALL_OUTER, FEAT_WALL_SOLID}
             \cup PermFeats

cave_in_bounds(c) ==
    0 <= c[1] /\ c[1] < c_height /\ 0 <= c[2] /\ c[2] < c_width

CMP(a, b) == IF a < b THEN -1 ELSE IF a > b THEN 1 ELSE 0

\* correct_dir with the two points swapped: away from the target
correct_dir_away(y1, x1, y2, x2) ==
    LET rdir == CMP(y1, y2)
        cdir == CMP(x1, x2)
    IN IF rdir = 0 \/ cdir = 0 THEN {<<rdir, cdir>>}
       ELSE {<<0, cdir>>, <<rdir, 0>>}

\* correct_dir: the directions it can give
correct_dir(y1, x1, y2, x2) ==
    LET rdir == CMP(y2, y1)
        cdir == CMP(x2, x1)
    IN IF rdir = 0 \/ cdir = 0 THEN {<<rdir, cdir>>}
       ELSE {<<0, cdir>>, <<rdir, 0>>}

\* rand_dir: ddy_ddd[i], ddx_ddd[i] for i = randint0(4)
rand_dir == {<<1, 0>>, <<-1, 0>>, <<0, 1>>, <<0, -1>>}

Neighbours8(c) ==
    {d \in ((c[1] - 1) .. (c[1] + 1)) \X ((c[2] - 1) .. (c[2] + 1)) : d # c}

\* the branch of the tunnelling loop that is cut short: the walls are
\* looked at before the room flag
tunnel_branch_walls_first(f, room) ==
    IF f \in PermFeats THEN "continue"
    ELSE IF f = FEAT_WALL_SOLID THEN "continue"
    ELSE IF f = FEAT_WALL_OUTER THEN "pierce"
    ELSE IF IsHardWall(f) THEN "tunnel"
    ELSE IF room THEN "room"
    ELSE "corridor"

\* the branch the tunnelling loop takes on a cell with feature f; room says
\* whether the cell has CAVE_ROOM
tunnel_branch(f, room) ==
    IF f \in PermFeats THEN "continue"
    ELSE IF f = FEAT_WALL_SOLID THEN "continue"
    ELSE IF f = FEAT_WALL_OUTER THEN "pierce"
    ELSE IF room THEN "room"
    ELSE IF IsHardWall(f) THEN "tunnel"
    ELSE "corridor"

\* "Forbid re-entry near this piercing", with the four neighbours only
forbid_reentry_4(v, c, p) ==
    IF c \in Adjacent4(p) /\ v = FEAT_WALL_OUTER THEN FEAT_WALL_SOLID ELSE v

\* "Forbid re-entry near this piercing": the feature of cell c after the
\* loops around the piercing p, from its feature v
forbid_reentry(v, c, p) ==
    IF InRect(c, p[1] - 1, p[2] - 1, p[1] + 1, p[2] + 1)
          /\ v = FEAT_WALL_OUTER
    THEN FEAT_WALL_SOLID ELSE v

\* place_random_door: the feature it is driven with (tmp = 99)
RandomDoors == {FEAT_DOOR_HEAD}

Range(s) == {s[i] : i \in DOMAIN s}

TunnelsInit ==
    /\ \E rs \in TunnelRooms :
          /\ feat = FeatOf(RoomsBuilt(rs))
          /\ info = InfoOf(RoomsBuilt(rs))
          \* "Scramble the room order"
          /\ cent \in {<<rs[1].centre, rs[2].centre>>,
                       <<rs[2].centre, rs[1].centre>>}
    /\ c_height = ARRAY_HGT
    /\ c_width = ARRAY_WID
    /\ t_pc = "connect"
    /\ cent_i = 0
    \* "connect the first room to the last room"
    /\ prev_yx = cent[Len(cent)]
    /\ row1 = 0 /\ col1 = 0 /\ row2 = 0 /\ col2 = 0
    /\ row_dir = 0 /\ col_dir = 0 /\ start_row = 0 /\ start_col = 0
    /\ main_loop_count = 0 /\ door_flag = FALSE
    /\ tunn = <<>> /\ wall = <<>> /\ door = <<>> /\ pierced = {}
    /\ turns \in [1 .. TurnsLen -> rand_dir]

\* build_tunnel(c, dun->cent[i].y, dun->cent[i].x, y, x) up to its loop
BuildTunnelBegin ==
    /\ t_pc = "connect"
    /\ cent_i < Len(cent)
    /\ row1' = cent[cent_i + 1][1]
    /\ col1' = cent[cent_i + 1][2]
    /\ row2' = prev_yx[1]
    /\ col2' = prev_yx[2]
    /\ start_row' = cent[cent_i + 1][1]
    /\ start_col' = cent[cent_i + 1][2]
    /\ main_loop_count' = 0
    /\ door_flag' = FALSE
    /\ tunn' = <<>>
    /\ wall' = <<>>
    /\ \E d \in correct_dir(cent[cent_i + 1][1], cent[cent_i + 1][2],
                            prev_yx[1], prev_yx[2]) :
          row_dir' = d[1] /\ col_dir' = d[2]
    /\ t_pc' = "loop"
    /\ UNCHANGED <<feat, cent_i, prev_yx, door, turns, pierced>>
    /\ UNCHANGED notTunnels

\* the directions one round of the loop can go on with: the old one, or,
\* after a bend or a step off the level, correct_dir and rand_dir
StepDirs ==
    {d \in {<<row_dir, col_dir>>}
              \cup correct_dir(row1, col1, row2, col2) \cup rand_dir :
        cave_in_bounds(<<row1 + d[1], col1 + d[2]>>)}

\* one round of the loop from "Avoid the edge of the dungeon" on, with the
\* direction d it has come to
TunnelBody(d) ==
    LET tmp == <<row1 + d[1], col1 + d[2]>>
        nxt == <<tmp[1] + d[1], tmp[2] + d[2]>>
        branch == tunnel_branch(FeatAt(tmp),
                                CAVE_ROOM \in info[tmp[1]][tmp[2]])
        accept == /\ branch # "continue"
                  /\ branch = "pierce" =>
                        FeatAt(nxt) \notin {FEAT_PERM_SOLID,
                                            FEAT_PERM_OUTER,
                                            FEAT_WALL_OUTER,
                                            FEAT_WALL_SOLID}
    IN /\ row_dir' = d[1]
       /\ col_dir' = d[2]
       /\ row1' = IF accept THEN tmp[1] ELSE row1
       /\ col1' = IF accept THEN tmp[2] ELSE col1
       /\ IF accept /\ branch = "pierce"
            THEN /\ wall' = IF Len(wall) < WALL_MAX
                              THEN Append(wall, tmp) ELSE wall
                 /\ feat' = [y \in ArrayRows |-> [x \in ArrayCols |->
                               forbid_reentry(feat[y][x], <<y, x>>, tmp)]]
                 /\ pierced' = pierced \cup {tmp}
            ELSE UNCHANGED <<wall, feat, pierced>>
       /\ tunn' = IF accept /\ branch = "tunnel" /\ Len(tunn) < TUNN_MAX
                    THEN Append(tunn, tmp) ELSE tunn
       /\ door' = IF /\ accept /\ branch = "corridor" /\ ~door_flag
                     /\ Len(door) < DOOR_MAX
                    THEN Append(door, tmp) ELSE door
       /\ door_flag' = IF accept /\ branch = "tunnel" THEN FALSE
                       ELSE IF accept /\ branch = "corridor" THEN TRUE
                       ELSE door_flag
       \* "allow pre-emptive tunnel termination"
       /\ \/ t_pc' = "loop"
          \/ /\ accept /\ branch = "corridor"
             /\ \/ tmp[1] - start_row > TUN_FAR
                \/ start_row - tmp[1] > TUN_FAR
                \/ tmp[2] - start_col > TUN_FAR
                \/ start_col - tmp[2] > TUN_FAR
             /\ t_pc' = "floors"

\* one round of "while ((row1 != row2) || (col1 != col2))"
TunnelStep ==
    /\ t_pc = "loop"
    /\ row1 # row2 \/ col1 # col2
    /\ main_loop_count <= MAIN_LOOP_MAX
    /\ main_loop_count' = main_loop_count + 1
    /\ turns' = Tail(turns) \o <<Head(turns)>>
    /\ \E d \in StepDirs \cap {Head(turns)} : TunnelBody(d)
    /\ UNCHANGED <<cent_i, prev_yx, row2, col2, start_row, start_col>>
    /\ UNCHANGED notTunnels

\* the tunnel has come to its target
TunnelArrives ==
    /\ t_pc = "loop"
    /\ row1 = row2 /\ col1 = col2
    /\ t_pc' = "floors"
    /\ UNCHANGED main_loop_count

\* "if (main_loop_count++ > 2000) break;" breaks
TunnelBreaks ==
    /\ t_pc = "loop"
    /\ row1 # row2 \/ col1 # col2
    /\ main_loop_count > MAIN_LOOP_MAX
    /\ main_loop_count' = main_loop_count + 1
    /\ t_pc' = "floors"

\* the loop ends at the target, or at "if (main_loop_count++ > 2000) break;"
TunnelLoopEnd ==
    /\ TunnelArrives \/ TunnelBreaks
    /\ UNCHANGED <<feat, cent_i, prev_yx, row1, col1, row2, col2, row_dir,
                   col_dir, start_row, start_col, door_flag,
                   tunn, wall, door, turns, pierced>>
    /\ UNCHANGED notTunnels

\* "Turn the tunnel into corridor", "Apply the piercings that we found",
\* and default_gen remembers the previous room
TunnelFloors ==
    /\ t_pc = "floors"
    /\ \E kind \in [Range(wall) -> {FEAT_FLOOR} \cup RandomDoors] :
          feat' = [y \in ArrayRows |-> [x \in ArrayCols |->
                     IF <<y, x>> \in Range(wall) THEN kind[<<y, x>>]
                     ELSE IF <<y, x>> \in Range(tunn) THEN FEAT_FLOOR
                     ELSE feat[y][x]]]
    /\ prev_yx' = cent[cent_i + 1]
    /\ cent_i' = cent_i + 1
    /\ t_pc' = "connect"
    /\ UNCHANGED <<row1, col1, row2, col2, row_dir, col_dir, start_row,
                   start_col, main_loop_count, door_flag, tunn, wall, door,
                   turns, pierced>>
    /\ UNCHANGED notTunnels

\* the loop over the room centres is over
TunnelsDone ==
    /\ t_pc = "connect"
    /\ cent_i = Len(cent)
    /\ t_pc' = "done"
    /\ UNCHANGED <<feat, cent_i, prev_yx, row1, col1, row2, col2, row_dir,
                   col_dir, start_row, start_col, main_loop_count, door_flag,
                   tunn, wall, door, turns, pierced>>
    /\ UNCHANGED notTunnels

\* ---- the junction doors ----
\* tunnel-default: jct = 90
TUN_JCT == 90

\* what randint0(100) gives in try_door: the two sides of jct
JctRolls == {TUN_JCT - 1, TUN_JCT}

cave_isroom(c) == CAVE_ROOM \in info[c[1]][c[2]]

\* granite and permanent walls (no mineral vein is laid before the doors)
cave_isstrongwall(c) == IsHardWall(FeatAt(c))

\* next_to_corr: the adjacent corridor cells
next_to_corr(c) ==
    Cardinality({d \in Adjacent4(c) : cave_isfloor(d) /\ ~cave_isroom(d)})

possible_doorway(c) ==
    IF next_to_corr(c) < 2 THEN FALSE
    ELSE IF cave_isstrongwall(<<c[1] - 1, c[2]>>)
          /\ cave_isstrongwall(<<c[1] + 1, c[2]>>) THEN TRUE
    ELSE IF cave_isstrongwall(<<c[1], c[2] - 1>>)
          /\ cave_isstrongwall(<<c[1], c[2] + 1>>) THEN TRUE
    ELSE FALSE

\* try_door places a door on c when randint0(100) gives roll
try_door(c, roll) ==
    IF cave_isstrongwall(c) THEN FALSE
    ELSE IF cave_isroom(c) THEN FALSE
    ELSE roll < TUN_JCT /\ possible_doorway(c)

\* try_door called with the junction itself
JunctionSide_junction(j, k) == j

\* the cell of the k-th try_door call around the junction j:
\* (y, x - 1), (y, x + 1), (y - 1, x), (y + 1, x)
JunctionSide(j, k) ==
    IF k = 0 THEN <<j[1], j[2] - 1>>
    ELSE IF k = 1 THEN <<j[1], j[2] + 1>>
    ELSE IF k = 2 THEN <<j[1] - 1, j[2]>>
    ELSE <<j[1] + 1, j[2]>>

notDoors == <<genVars, roomVars, buildVars, repairVars, levelVars, dirVars,
              vaultVars, townVars, cavVars, mazeVars, gvVars, tunVars,
              placeVars, memVars, lateVars, c_height, c_width,
              info>>

\* one try_door call of "for (i = 0; i < dun->door_n; i++)"
TryDoor ==
    /\ t_pc = "done"
    /\ jct_pc = "idle"
    /\ jct_i < Len(door)
    /\ LET c == JunctionSide(door[jct_i + 1], jct_k)
       IN /\ jct_tried' = jct_tried \cup {c}
          /\ \E roll \in JctRolls :
                IF try_door(c, roll)
                THEN /\ \E d \in RandomDoors :
                          feat' = [feat EXCEPT ![c[1]][c[2]] = d]
                     /\ jct_doors' = jct_doors \cup
                           {[cell |-> c,
                             junction |-> door[jct_i + 1],
                             strong |-> cave_isstrongwall(c),
                             room |-> cave_isroom(c),
                             corr |-> next_to_corr(c),
                             vert |-> /\ cave_isstrongwall(<<c[1] - 1, c[2]>>)
                                      /\ cave_isstrongwall(<<c[1] + 1, c[2]>>),
                             horiz |-> /\ cave_isstrongwall(<<c[1], c[2] - 1>>)
                                       /\ cave_isstrongwall(<<c[1], c[2] + 1>>)]}
                ELSE UNCHANGED <<feat, jct_doors>>
    /\ jct_k' = (jct_k + 1) % 4
    /\ jct_i' = IF jct_k = 3 THEN jct_i + 1 ELSE jct_i
    /\ UNCHANGED jct_pc
    /\ UNCHANGED notDoors

\* i = dun->door_n: the door loop is over
JunctionDoorsDone ==
    /\ t_pc = "done"
    /\ jct_pc = "idle"
    /\ jct_i = Len(door)
    /\ jct_pc' = "done"
    /\ UNCHANGED <<feat, jct_i, jct_k, jct_tried, jct_doors>>
    /\ UNCHANGED notDoors

NextTunnels ==
    \/ BuildTunnelBegin
    \/ TunnelStep
    \/ TunnelLoopEnd
    \/ TunnelFloors
    \/ TunnelsDone
    \/ TryDoor
    \/ JunctionDoorsDone

InitTunnels ==
    /\ TunnelsInit /\ MoreIdle /\ GenIdle /\ RoomIdle /\ BuildIdle /\ RepairIdle
    /\ LevelIdle /\ DirIdle /\ VaultIdle /\ TownIdle /\ CavIdle
    /\ MazeIdle /\ GvIdle

SpecTunnels == InitTunnels /\ [][NextTunnels]_vars

-----------------------------------------------------------------------------
(* Claims about the tunnels                                                *)

\* C13: no cell build_tunnel records in dun->tunn has CAVE_ROOM, and none
\* is permanent, FEAT_WALL_SOLID or FEAT_WALL_OUTER when it is recorded; the
\* cells that are turned into corridor floor are not cells of a room.
C13_TunnelCellsOutsideRooms ==
    /\ [][Len(tunn') > Len(tunn) =>
             LET c == tunn'[Len(tunn')]
             IN /\ CAVE_ROOM \notin info[c[1]][c[2]]
                /\ FeatAt(c) \notin PermFeats
                                       \cup {FEAT_WALL_SOLID, FEAT_WALL_OUTER}]_vars
    /\ [](\A c \in Range(tunn) :
             /\ CAVE_ROOM \notin info[c[1]][c[2]]
             /\ t_pc = "connect" => FeatAt(c) = FEAT_FLOOR)

\* a tunnel whose recorded cells have been turned into floor
C13_Witness ==
    /\ t_pc = "connect"
    /\ Len(tunn) > 0
    /\ Len(wall) > 0

\* C14: no two distinct piercings of the level are 8-neighbours, and no
\* 8-neighbour of a piercing is FEAT_WALL_OUTER.
C14_NoAdjacentPiercings ==
    \A p \in pierced :
        /\ \A q \in Neighbours8(p) : q \notin pierced
        /\ \A q \in Neighbours8(p) : FeatAt(q) # FEAT_WALL_OUTER

\* the second tunnel of a level has pierced a wall, after the first had
C14_Witness ==
    /\ cent_i = 1
    /\ Len(wall) > 0
    /\ Cardinality(pierced) >= 3

-----------------------------------------------------------------------------
(* The town: town_gen and town_gen_hack                                    *)

\* the town seeds followed: 0 .. SeedMax
SeedMax == 3

\* the generations of the town that are followed
Visits == 2

\* the stores, and the size of the town
MAX_STORES == 8
TOWN_HGT == 22
TOWN_WID == 66

\* int n_rows = 2; int n_cols = (MAX_STORES + 1) / n_rows;
n_rows == 2
n_cols == (MAX_STORES + 1) \div n_rows

FEAT_PERM_EXTRA == "FEAT_PERM_EXTRA"

\* FEAT_SHOP_HEAD + n
ShopFeat(n) ==
    <<"FEAT_SHOP_HEAD+0", "FEAT_SHOP_HEAD+1", "FEAT_SHOP_HEAD+2",
      "FEAT_SHOP_HEAD+3", "FEAT_SHOP_HEAD+4", "FEAT_SHOP_HEAD+5",
      "FEAT_SHOP_HEAD+6", "FEAT_SHOP_HEAD+7", "FEAT_SHOP_HEAD+8">>[n + 1]

notTown == <<moreVars, genVars, roomVars, buildVars, repairVars, levelVars, dirVars,
             tunVars, vaultVars, cavVars, mazeVars, gvVars, info>>

\* ---- the two generators: each has a state of RAND_BITS bits ----
RAND_BITS == 16
RAND_MOD == 2 ^ RAND_BITS

\* the simple generator: a linear congruential step
LCRNG(v) == (v * 25173 + 13849) % RAND_MOD

\* the complex generator: another step on its own state
Rand_complex(v) == (v * 4005 + 1) % RAND_MOD

\* the states the main generator is found in when the town is entered
MainStates == {1, 40000}

\* one draw: the generator in use moves, the other one stays
RandStep(g) ==
    IF g.quick THEN [g EXCEPT !.value = LCRNG(g.value)]
    ELSE [g EXCEPT !.state = Rand_complex(g.state)]

\* the number the generator in use shows
RandOut(g) == (IF g.quick THEN g.value ELSE g.state) \div 16

RECURSIVE RandAfter(_, _)
\* the generators after k draws
RandAfter(g, k) == IF k = 0 THEN g ELSE RandStep(RandAfter(g, k - 1))

\* randint0(m) as the k-th draw from g on
Roll0(g, k, m) == RandOut(RandAfter(g, k)) % m

Gen == [quick |-> Rand_quick, value |-> Rand_value, state |-> Rand_state]

\* town_gen_hack without "Rand_quick = TRUE"
town_rng_switch_main(g, seed) == [g EXCEPT !.value = seed]

\* Rand_quick = TRUE; Rand_value = seed_town;
town_rng_switch(g, seed) == [g EXCEPT !.quick = TRUE, !.value = seed]

\* build_store(c, n, yy, xx): the rectangle and the door, with the five
\* rolls in the order of the declarations
build_store(g, n, yy, xx) ==
    LET y0 == yy * 9 + 6
        x0 == xx * 14 + 12
        y1 == y0 - (Roll0(g, 1, IF yy = 0 THEN 3 ELSE 2) + 1)
        y2 == y0 + (Roll0(g, 2, IF yy = 1 THEN 3 ELSE 2) + 1)
        x1 == x0 - (Roll0(g, 3, 5) + 1)
        x2 == x0 + (Roll0(g, 4, 5) + 1)
    IN [n |-> n, y1 |-> y1, x1 |-> x1, y2 |-> y2, x2 |-> x2,
        dy |-> IF yy = 0 THEN y2 ELSE y1,
        dx |-> x1 + Roll0(g, 5, 1 + x2 - x1)]

\* a town_gen_hack that leaves the store it has built among the remaining
remove_store_none(r, k, n) == r

\* rooms[k] = rooms[--n];
remove_store(r, k, n) == [r EXCEPT ![k + 1] = r[n]]

RECURSIVE find_in_range(_, _, _, _, _, _, _, _)
\* _find_in_range(c, y, y1, y2, x, x1, x2, squares, cave_isempty) from its
\* round i on: the cell it leaves in *y, *x and the generators
find_in_range(g, i, squares, last, y1, y2, x1, x2) ==
    LET yd == y2 - y1
        xd == x2 - x1
        n == yd * xd
    IN IF i >= n THEN [found |-> FALSE, at |-> last, g |-> g]
       ELSE LET g1 == RandStep(g)
                j == (RandOut(g1) % (n - i)) + i
                k == squares[j]
                at == <<(k \div xd) + y1, (k % xd) + x1>>
            IN IF cave_isfloor(at)
               THEN [found |-> TRUE, at |-> at, g |-> g1]
               ELSE find_in_range(g1, i + 1,
                                  [squares EXCEPT ![j] = squares[i],
                                                  ![i] = k],
                                  at, y1, y2, x1, x2)

\* find_empty_range(c, &y, y1, y2, &x, x1, x2): nothing lies or stands on
\* the town floor yet
find_empty_range(g, last, y1, y2, x1, x2) ==
    find_in_range(g, 0, [i \in 0 .. (y2 - y1) * (x2 - x1) - 1 |-> i], last,
                  y1, y2, x1, x2)

TownInit ==
    /\ w_pc = "enter"
    /\ seed_town \in 0 .. SeedMax
    /\ Rand_quick = FALSE
    /\ Rand_value = 0
    /\ Rand_state \in MainStates
    /\ rooms_left = <<>> /\ n_left = 0 /\ slot = 0
    /\ p_yx = <<>> /\ stores = <<>> /\ stair = <<>>
    /\ entry_state = 0
    /\ visit = 1
    /\ town_before = <<>>
    /\ c_height = TOWN_HGT
    /\ c_width = TOWN_WID
    /\ feat = [y \in 0 .. TOWN_HGT - 1 |-> [x \in 0 .. TOWN_WID - 1 |->
                 FEAT_NONE]]
    /\ info = [y \in 0 .. TOWN_HGT - 1 |-> [x \in 0 .. TOWN_WID - 1 |-> {}]]

\* town_gen up to the call of town_gen_hack, and town_gen_hack up to the
\* store loops
TownGenEnter ==
    /\ w_pc = "enter"
    /\ c_height' = TOWN_HGT
    /\ c_width' = TOWN_WID
    /\ feat' = [y \in 0 .. TOWN_HGT - 1 |-> [x \in 0 .. TOWN_WID - 1 |->
                  fill_rectangle(FEAT_PERM_SOLID, <<y, x>>, 1, 1,
                                 TOWN_HGT - 2, TOWN_WID - 2, FEAT_FLOOR)]]
    /\ LET g == town_rng_switch(Gen, seed_town)
       IN /\ Rand_quick' = g.quick
          /\ Rand_value' = g.value
    /\ rooms_left' = [n \in 1 .. MAX_STORES |-> n - 1]
    /\ n_left' = MAX_STORES
    /\ slot' = 0
    /\ stores' = <<>>
    /\ stair' = <<>>
    /\ p_yx' = <<>>
    /\ entry_state' = Rand_state
    /\ w_pc' = "stores"
    /\ UNCHANGED <<Rand_state, seed_town, visit, town_before>>
    /\ UNCHANGED notTown

\* one round of the store loops: k = randint0(n); build_store(...);
\* rooms[k] = rooms[--n];
TownStore ==
    /\ w_pc = "stores"
    /\ slot < n_rows * n_cols
    /\ n_left >= 1
    /\ LET y == slot \div n_cols
           x == slot % n_cols
           k == Roll0(Gen, 1, n_left)
           g1 == RandAfter(Gen, 1)
           s == build_store(g1, rooms_left[k + 1], y, x)
           g6 == RandAfter(g1, 5)
       IN /\ feat' = [yy \in 0 .. TOWN_HGT - 1 |->
                        [xx \in 0 .. TOWN_WID - 1 |->
                           cave_set_feat(
                              fill_rectangle(feat[yy][xx], <<yy, xx>>,
                                             s.y1, s.x1, s.y2, s.x2,
                                             FEAT_PERM_EXTRA),
                              <<yy, xx>>, s.dy, s.dx, ShopFeat(s.n))]]
          /\ stores' = Append(stores, s)
          /\ rooms_left' = remove_store(rooms_left, k, n_left)
          /\ n_left' = n_left - 1
          /\ Rand_value' = g6.value
          /\ Rand_state' = g6.state
    /\ slot' = slot + 1
    /\ UNCHANGED <<w_pc, Rand_quick, seed_town, p_yx, stair, entry_state,
                   visit, town_before, c_height, c_width>>
    /\ UNCHANGED notTown

\* the store loops end; find_empty_range, the down stairs, player_place,
\* Rand_quick = FALSE
TownStairs ==
    /\ w_pc = "stores"
    /\ slot >= n_rows * n_cols \/ n_left < 1
    /\ LET f == find_empty_range(Gen, <<n_rows, n_cols>>, 3, TOWN_HGT - 3,
                                 3, TOWN_WID - 3)
       IN /\ feat' = [feat EXCEPT ![f.at[1]][f.at[2]] = FEAT_MORE]
          /\ stair' = f.at
          /\ p_yx' = f.at
          /\ Rand_value' = f.g.value
          /\ Rand_state' = f.g.state
    /\ Rand_quick' = FALSE
    /\ w_pc' = "done"
    /\ UNCHANGED <<seed_town, rooms_left, n_left, slot, stores, entry_state,
                   visit, town_before, c_height, c_width>>
    /\ UNCHANGED notTown

\* the player leaves the town and comes back: the main generator has moved
\* on, the town seed is the one of the savefile
TownAgain ==
    /\ w_pc = "done"
    /\ visit < Visits
    /\ visit' = visit + 1
    /\ town_before' = [stores |-> stores, stair |-> stair,
                       main |-> entry_state]
    /\ Rand_state' \in MainStates
    /\ w_pc' = "enter"
    /\ UNCHANGED <<Rand_quick, Rand_value, seed_town, rooms_left, n_left, slot,
                   p_yx, stores, stair, entry_state, caveVars>>
    /\ UNCHANGED notTown

NextTown ==
    \/ TownGenEnter
    \/ TownStore
    \/ TownStairs
    \/ TownAgain

InitTown ==
    /\ TownInit /\ MoreIdle /\ GenIdle /\ RoomIdle /\ BuildIdle /\ RepairIdle
    /\ LevelIdle /\ DirIdle /\ TunIdle /\ VaultIdle /\ CavIdle /\ MazeIdle
    /\ GvIdle

SpecTown == InitTown /\ [][NextTown]_vars

-----------------------------------------------------------------------------
(* Claims about the town                                                   *)

StoreCells(s) == (s.y1 .. s.y2) \X (s.x1 .. s.x2)

\* C16: when the town is built there is exactly one shop entrance for each
\* store 0 .. MAX_STORES - 1 and MAX_STORES entrances in all, no store
\* building overlaps another or covers the entrance of another, there is
\* exactly one down staircase, and the player stands on it.
C16_TownStoresAndStair ==
    w_pc = "done" =>
       /\ \A n \in 0 .. MAX_STORES - 1 :
             Cardinality({c \in LevelCells : FeatAt(c) = ShopFeat(n)}) = 1
       /\ Cardinality({c \in LevelCells :
             \E n \in 0 .. MAX_STORES : FeatAt(c) = ShopFeat(n)}) = MAX_STORES
       /\ \A i, j \in 1 .. Len(stores) :
             i # j => /\ StoreCells(stores[i]) \cap StoreCells(stores[j]) = {}
                      /\ <<stores[j].dy, stores[j].dx>>
                            \notin StoreCells(stores[i])
       /\ Cardinality({c \in LevelCells : FeatAt(c) = FEAT_MORE}) = 1
       /\ p_yx \in LevelCells
       /\ FeatAt(p_yx) = FEAT_MORE

\* the town is built: all the stores and the stairs
C16_Witness ==
    /\ w_pc = "done"
    /\ Len(stores) = MAX_STORES
    /\ stair # <<>>
    /\ \E i \in 1 .. Len(stores) : stores[i].n # i - 1

\* C17: with the same town seed the store rectangles, the shop entrances and
\* the down staircase of a later generation of the town are those of the
\* generation before, whatever state the main generator was in when each was
\* entered, and the main generator is the one in use when the builder
\* returns.
C17_TownFromSeedOnly ==
    w_pc = "done" =>
       /\ Rand_quick = FALSE
       /\ visit > 1 => /\ stores = town_before.stores
                       /\ stair = town_before.stair

\* the town is built a second time, entered in another state of the main
\* generator
C17_Witness ==
    /\ w_pc = "done"
    /\ visit > 1
    /\ town_before.main # entry_state
    /\ Len(stores) = MAX_STORES

-----------------------------------------------------------------------------
(* cavern_gen: the tries, then the culling and the joining of the regions  *)

\* #define MAX_CAVERN_TRIES 10
MAX_CAVERN_TRIES == 10

notCavern == <<moreVars, genVars, roomVars, buildVars, repairVars, levelRest,
               l_profile, dirVars, tunVars, vaultVars, townVars, mazeVars,
               gvVars>>

\* caverns after the last mutate_cavern pass of a try: closed ones, ones of
\* small regions only, ones of several regions, ones in one piece
CavernPasses ==
    CavernTries \cup CavernBroken
       \cup {[rooms |-> {}, halls |-> {<<1, 1, 2, 2>>}, stairs |-> {}],
             [rooms |-> {}, halls |-> {BlobA, <<1, 5, 2, 6>>},
              stairs |-> {}]}

CavernInit ==
    /\ depth \in DepthValues \ {0}
    /\ tries = 0 /\ error = "NULL" /\ character_dungeon = FALSE
    /\ gen_pc = "idle" /\ perc = 0 /\ profile_i = 0 /\ built_by = "none"
    /\ overflows = 0
    /\ l_profile = "cavern"
    /\ l_pc = "cavern_gen"
    /\ c_height = ARRAY_HGT
    /\ c_width = ARRAY_WID
    /\ feat = FeatOf([y \in ArrayRows |-> [x \in ArrayCols |->
                        cave_clear(StaleCell)]])
    /\ info = InfoOf([y \in ArrayRows |-> [x \in ArrayCols |->
                        cave_clear(StaleCell)]])
    /\ cv_tries = 0
    /\ openc = 0

\* cavern_gen up to the loop: the size, set_cave_dimensions, the depth test
CavernGenEnter ==
    /\ l_pc = "cavern_gen"
    /\ c_height' \in CavernHeights
    /\ c_width' \in CavernWidths
    /\ l_pc' = IF depth < 15 THEN "cavern_false" ELSE "cavern_try"
    /\ cv_tries' = 0
    /\ UNCHANGED <<feat, info, openc>>
    /\ UNCHANGED notCavern

\* one round of the loop: init_cavern, the mutate_cavern passes,
\* count_open_squares, "if (openc >= limit) break;"; after the loop
\* "if (tries == MAX_CAVERN_TRIES) ok = FALSE;"
CavernTry ==
    /\ l_pc = "cavern_try"
    /\ \E lay \in {l \in CavernPasses : LayoutFits(l, c_height, c_width)} :
          LET in == [profile |-> "cavern", h |-> c_height, w |-> c_width,
                     lay |-> lay, opened |-> {}, soft |-> FALSE,
                     lit |-> FALSE]
              drawn == [y \in ArrayRows |-> [x \in ArrayCols |->
                          LaidOut(in, [feat |-> feat[y][x],
                                       info |-> info[y][x]], <<y, x>>)]]
              limit == (c_height * c_width) \div 13
              n == count_open_squares(lay, c_height, c_width)
          IN /\ feat' = FeatOf(drawn)
             /\ info' = InfoOf(drawn)
             /\ openc' = n
             /\ IF n >= limit
                  THEN /\ l_pc' = "build_colors"
                       /\ UNCHANGED cv_tries
                  ELSE /\ cv_tries' = cv_tries + 1
                       /\ l_pc' = IF cv_tries + 1 = MAX_CAVERN_TRIES
                                  THEN "cavern_false" ELSE "cavern_try"
    /\ UNCHANGED <<c_height, c_width>>
    /\ UNCHANGED notCavern

NextCavern ==
    \/ CavernGenEnter
    \/ CavernTry
    \/ BuildColors
    \/ ClearSmallRegions
    \/ JoinRegionsStep
    \/ JoinRegionsDone

InitCavern ==
    /\ CavernInit /\ MoreIdle /\ RoomIdle /\ BuildIdle /\ RepairIdle /\ LevelRestIdle
    /\ DirIdle /\ TunIdle /\ VaultIdle /\ TownIdle /\ MazeIdle /\ GvIdle

SpecCavern == InitCavern /\ [][NextCavern]_vars

-----------------------------------------------------------------------------
(* Claims about cavern_gen                                                 *)

\* the sizes of the 4-connected regions of open cells
OpenRegionSizes == {Cardinality(reg) : reg \in RegionsOf(FloorCells)}

\* C18 (as stated): when cavern_gen has culled and joined the regions, and
\* so returns TRUE, the depth is at least 15, the open cells of the level
\* are at least h * w / 13, and no 4-connected open region has fewer than
\* 9 cells.
C18_CavernOpenAfterCulling ==
    (l_profile = "cavern" /\ l_pc = "joined") =>
       /\ depth >= 15
       /\ Cardinality(FloorCells) >= (c_height * c_width) \div 13
       /\ \A n \in OpenRegionSizes : n >= 9

\* C18 (amended): when cavern_gen has culled and joined the regions, and so
\* returns TRUE, the depth is at least 15, the open cells counted after the
\* last mutate_cavern pass, before the culling, were at least h * w / 13,
\* and no 4-connected open region has fewer than 9 cells.
C18_CavernOpenBeforeCulling ==
    (l_profile = "cavern" /\ l_pc = "joined") =>
       /\ depth >= 15
       /\ openc >= (c_height * c_width) \div 13
       /\ \A n \in OpenRegionSizes : n >= 9

\* a cavern that passed after a try that failed and had its regions joined
C18_Witness ==
    /\ l_profile = "cavern" /\ l_pc = "joined"
    /\ cv_tries > 0
    /\ bridges > 0
    /\ FloorCells # {}
    /\ Cardinality(FloorCells) > openc

-----------------------------------------------------------------------------
(* labyrinth_gen: the one-cell rooms and the wall loop                     *)

\* the one-cell rooms of the labyrinths that are followed
MaxMazeCells == 6

notMaze == <<moreVars, genVars, roomVars, buildVars, repairVars, levelVars, dirVars,
             tunVars, vaultVars, townVars, cavVars, gvVars, info>>

\* the one-cell rooms of a labyrinth part of h x w squares
MazeCells(h, w) == {c \in Cells(h, w) : c[1] % 2 = 0 /\ c[2] % 2 = 0}

\* h and w are odd ("15 + randint0(c->depth / 10) * 2"); the level of
\* h + 2 by w + 2 squares has to lie in the array
MazeSizes ==
    {hw \in (1 .. ARRAY_HGT - 2) \X (1 .. ARRAY_WID - 2) :
        /\ hw[1] % 2 = 1 /\ hw[2] % 2 = 1
        /\ Cardinality(MazeCells(hw[1], hw[2])) <= MaxMazeCells}

\* the tests of the wall loop: "If this cell isn't an adjoining wall, skip
\* it"
lab_is_adjoining(j, h, w) ==
    LET y == lab_toyx(j, w)[1]
        x == lab_toyx(j, w)[2]
    IN /\ ~((x < 1 /\ y < 1) \/ (x > w - 2 /\ y > h - 2))
       /\ ~(x % 2 = y % 2)

\* a union that moves the one cell b only
lab_union_cell(s, a, b) == [s EXCEPT ![b] = s[a]]

\* for (k = 0; k < n; k++) if (sets[k] == sb) sets[k] = sa;
lab_union(s, a, b) == [k \in DOMAIN s |-> IF s[k] = s[b] THEN s[a] ELSE s[k]]

MazeInit ==
    /\ m_pc = "fill"
    /\ lab_h = 0 /\ lab_w = 0 /\ m_sets = <<>> /\ lab_i = 0
    /\ walls_left = {} /\ others_left = 0 /\ knocked = 0
    /\ c_height = ARRAY_HGT
    /\ c_width = ARRAY_WID
    /\ feat = FeatOf([y \in ArrayRows |-> [x \in ArrayCols |->
                        cave_clear(StaleCell)]])
    /\ info = InfoOf([y \in ArrayRows |-> [x \in ArrayCols |->
                        cave_clear(StaleCell)]])

\* labyrinth_gen up to the wall loop: h and w, set_cave_dimensions, the
\* fills, walls[] and sets[], the one-cell rooms, shuffle(walls, n)
LabyrinthCells ==
    /\ m_pc = "fill"
    /\ \E hw \in MazeSizes, soft \in BOOLEAN :
          LET h == hw[1]
              w == hw[2]
              n == h * w
              adjoining == {j \in 0 .. n - 1 : lab_is_adjoining(j, h, w)}
          IN /\ lab_h' = h
             /\ lab_w' = w
             /\ c_height' = h + 2
             /\ c_width' = w + 2
             /\ feat' = [y \in ArrayRows |-> [x \in ArrayCols |->
                           labyrinth_fill(feat[y][x], <<y, x>>, {}, h, w,
                                          soft)]]
             /\ m_sets' = lab_sets(h, w)
             /\ walls_left' = adjoining
             /\ others_left' = n - Cardinality(adjoining)
    /\ lab_i' = 0
    /\ knocked' = 0
    /\ m_pc' = "walls"
    /\ UNCHANGED notMaze

\* a round of the wall loop on an entry that is not an adjoining wall:
\* continue
LabyrinthSkip ==
    /\ m_pc = "walls"
    /\ others_left > 0
    /\ others_left' = others_left - 1
    /\ lab_i' = lab_i + 1
    /\ UNCHANGED <<m_pc, lab_h, lab_w, m_sets, walls_left, knocked,
                   caveVars>>
    /\ UNCHANGED notMaze

\* a round of the wall loop on an adjoining wall: whichever the shuffle
\* has put next
LabyrinthWall ==
    /\ m_pc = "walls"
    /\ \E j \in walls_left :
          LET yx == lab_toyx(j, lab_w)
              ab == lab_get_adjoin(j, lab_w)
          IN /\ walls_left' = walls_left \ {j}
             /\ IF m_sets[ab[1]] # m_sets[ab[2]]
                  THEN /\ feat' = [feat EXCEPT ![yx[1] + 1][yx[2] + 1] =
                                                  FEAT_FLOOR]
                       /\ m_sets' = lab_union(m_sets, ab[1], ab[2])
                       /\ knocked' = knocked + 1
                  ELSE UNCHANGED <<feat, m_sets, knocked>>
    /\ lab_i' = lab_i + 1
    /\ UNCHANGED <<m_pc, lab_h, lab_w, others_left, c_height, c_width, info>>
    /\ UNCHANGED <<moreVars, genVars, roomVars, buildVars, repairVars, levelVars,
                   dirVars, tunVars, vaultVars, townVars, cavVars, gvVars>>

\* i = n: the wall loop is over
LabyrinthWallsDone ==
    /\ m_pc = "walls"
    /\ lab_i >= lab_h * lab_w
    /\ m_pc' = "done"
    /\ UNCHANGED <<lab_h, lab_w, m_sets, lab_i, walls_left, others_left,
                   knocked, caveVars>>
    /\ UNCHANGED notMaze

NextMaze ==
    \/ LabyrinthCells
    \/ LabyrinthSkip
    \/ LabyrinthWall
    \/ LabyrinthWallsDone

InitMaze ==
    /\ MazeInit /\ MoreIdle /\ GenIdle /\ RoomIdle /\ BuildIdle /\ RepairIdle
    /\ LevelIdle /\ DirIdle /\ TunIdle /\ VaultIdle /\ TownIdle /\ CavIdle
    /\ GvIdle

SpecMaze == InitMaze /\ [][NextMaze]_vars

-----------------------------------------------------------------------------
(* Claims about the wall loop of labyrinth_gen                             *)

\* the pairs of floor cells that lie side by side
FloorEdges ==
    {e \in SUBSET FloorCells :
        /\ Cardinality(e) = 2
        /\ \E a \in e : e \ {a} \subseteq Adjacent4(a)}

\* C19: after the wall loop of labyrinth_gen, in whatever order the shuffle
\* has put the walls and for every odd h and w, all the one-cell rooms are
\* in the same set, the walls knocked down are one fewer than the one-cell
\* rooms, and the floor cells are 4-connected and have no cycle.
C19_MazeIsSpanningTree ==
    m_pc = "done" =>
       LET cells == MazeCells(lab_h, lab_w)
       IN /\ \A a, b \in cells :
                m_sets[lab_toi(a[1], a[2], lab_w)]
                   = m_sets[lab_toi(b[1], b[2], lab_w)]
          /\ knocked = Cardinality(cells) - 1
          /\ FloorCells = {<<c[1] + 1, c[2] + 1>> : c \in cells}
                \cup {f \in FloorCells :
                        lab_is_adjoining(
                           lab_toi(f[1] - 1, f[2] - 1, lab_w), lab_h, lab_w)}
          /\ Cardinality(FloorCells) = 2 * Cardinality(cells) - 1
          /\ \A f \in FloorCells : Region(f, FloorCells) = FloorCells
          /\ Cardinality(FloorEdges) = Cardinality(FloorCells) - 1

\* a labyrinth with a ring of one-cell rooms is done, and a wall of the
\* ring has stayed
C19_Witness ==
    /\ m_pc = "done"
    /\ lab_h >= 3 /\ lab_w >= 3
    /\ knocked > 0
    /\ \E j \in 0 .. lab_h * lab_w - 1 :
          /\ lab_is_adjoining(j, lab_h, lab_w)
          /\ FeatAt(<<lab_toyx(j, lab_w)[1] + 1, lab_toyx(j, lab_w)[2] + 1>>)
                # FEAT_FLOOR

-----------------------------------------------------------------------------
(* build_greater_vault: the first-room test and the depth check            *)

\* the depths that are followed: 0 .. DeepestLevel
DeepestLevel == 105

\* the range of int
INT_MAX == 2147483647

notGreater == <<moreVars, genVars, repairVars, levelVars, dirVars, tunVars, townVars,
                cavVars, mazeVars, c_depth, room_map, crowded, cent_n,
                reserved_cnt, crowded_built, last_call, c_height, c_width>>

\* what a product of ints can come to when it leaves the range of int
Overflown == {0, 1, INT_MAX}

\* the rolls of randint0(d) that are followed around n
DepthRolls(n, d) == {r \in {0, n - 1, n, d - 1} : 0 <= r /\ r < d}

\* a depth check that also passes the roll that equals the numerator
depth_check_passes_at(roll, n) == roll <= n

\* if (randint0(denominator) >= numerator) return FALSE;
depth_check_passes(roll, n) == ~(roll >= n)

GreaterInit ==
    /\ c_depth \in 0 .. DeepestLevel
    /\ cent_n \in {0, 1}
    /\ room_map = <<>> /\ crowded = FALSE
    /\ reserved_cnt = <<>> /\ crowded_built = 0 /\ last_call = <<>>
    /\ c_height = MAX_ROOMS_ROW * BLOCK_HGT
    /\ c_width = MAX_ROOMS_COL * BLOCK_WID
    /\ feat = [y \in Rows |-> [x \in Cols |-> FEAT_WALL_EXTRA]]
    /\ info = [y \in Rows |-> [x \in Cols |-> {}]]
    /\ feat_before = feat
    /\ info_before = info
    /\ stamp = <<>>
    /\ gv_pc = "call"
    /\ gv_i = 0 /\ numerator = 0 /\ denominator = 0
    /\ gv_overflow = FALSE /\ gv_roll = 0 /\ gv_passed = FALSE
    /\ gv_result = FALSE

\* build_greater_vault up to its loop: "Only try to build a GV as the first
\* room."
GreaterVaultEnter ==
    /\ gv_pc = "call"
    /\ numerator' = 2
    /\ denominator' = 3
    /\ feat_before' = feat
    /\ info_before' = info
    /\ IF cent_n > 0
         THEN /\ gv_pc' = "returned"
              /\ gv_result' = FALSE
              /\ UNCHANGED gv_i
         ELSE /\ gv_pc' = "loop"
              /\ gv_i' = 90
              /\ UNCHANGED gv_result
    /\ UNCHANGED <<gv_overflow, gv_roll, gv_passed, feat, info, stamp>>
    /\ UNCHANGED notGreater

\* for (i = 90; i > c->depth; i -= 10) { numerator *= 2; denominator *= 3; }
GreaterVaultLoop ==
    /\ gv_pc = "loop"
    /\ gv_i > c_depth
    /\ IF numerator > INT_MAX \div 2 \/ denominator > INT_MAX \div 3
         THEN /\ gv_overflow' = TRUE
              /\ numerator' \in Overflown
              /\ denominator' \in Overflown
         ELSE /\ numerator' = numerator * 2
              /\ denominator' = denominator * 3
              /\ UNCHANGED gv_overflow
    /\ gv_i' = gv_i - 10
    /\ UNCHANGED <<gv_pc, gv_roll, gv_passed, gv_result, feat, info,
                   feat_before, info_before, stamp>>
    /\ UNCHANGED notGreater

\* the depth check, and build_vault_type(c, y0, x0, 8, "Greater vault")
GreaterVaultCheck ==
    /\ gv_pc = "loop"
    /\ ~(gv_i > c_depth)
    /\ \E roll \in DepthRolls(numerator, denominator) :
          /\ gv_roll' = roll
          /\ gv_passed' = depth_check_passes(roll, numerator)
          /\ IF depth_check_passes(roll, numerator)
               THEN \E v \in random_vault :
                    \E y0 \in {c_height \div 2}, x0 \in {c_width \div 2} :
                       /\ feat' = [y \in Rows |-> [x \in Cols |->
                                     build_vault_type(CellAt(<<y, x>>),
                                                      <<y, x>>, y0, x0,
                                                      v).feat]]
                       /\ info' = [y \in Rows |-> [x \in Cols |->
                                     build_vault_type(CellAt(<<y, x>>),
                                                      <<y, x>>, y0, x0,
                                                      v).info]]
                       /\ stamp' = IF v = NoVault THEN stamp
                                   ELSE [data |-> v, y0 |-> y0, x0 |-> x0]
                       /\ gv_result' = build_vault_type_returns(v)
               ELSE /\ gv_result' = FALSE
                    /\ UNCHANGED <<feat, info, stamp>>
    /\ gv_pc' = "returned"
    /\ UNCHANGED <<gv_i, numerator, denominator, gv_overflow, feat_before,
                   info_before>>
    /\ UNCHANGED notGreater

NextGreater ==
    \/ GreaterVaultEnter
    \/ GreaterVaultLoop
    \/ GreaterVaultCheck

InitGreater ==
    /\ GreaterInit /\ MoreIdle /\ GenIdle /\ RepairIdle /\ LevelIdle /\ DirIdle
    /\ TunIdle /\ TownIdle /\ CavIdle /\ MazeIdle

SpecGreater == InitGreater /\ [][NextGreater]_vars

-----------------------------------------------------------------------------
(* Claims about build_greater_vault                                        *)

\* the tens of levels that c->depth lies under 90, counted from the ten
\* 80 .. 89: none from depth 90 on, and so none at depth 100 and above
TensBelow90 == IF c_depth >= 90 THEN 0 ELSE (99 - c_depth) \div 10

-----------------------------------------------------------------------------
(* Claims about the junction doors                                         *)

\* what held of the cell of a placed door before the call: not a strong
\* wall, not in a room, two corridor cells beside it, and two strong walls
\* above and below it or left and right of it
DoorwayHeld(r) ==
    /\ ~r.strong
    /\ ~r.room
    /\ r.corr >= 2
    /\ r.vert \/ r.horiz

-----------------------------------------------------------------------------
(* The room loop of default_gen: blocks, keys, rarities and room profiles  *)

\* dun->profile->dun_rooms (50 in the code, for 6 x 18 blocks), scaled to
\* the blocks of the level that is followed
DunRooms == 2

\* "default", default_gen, 50, 200, 2: max_rarity
MAX_RARITY == 2

\* size_percent: 75, 80, 85, 90, 95 or 100
SizePercents == {75, 80, 85, 90, 95, 100}

\* what randint0(100) gives for key: below every cutoff, between the
\* cutoffs 40 and 50, and the last value
KeyRolls == {9, 45, 99}

notPlace == <<genVars, caveVars, buildVars, repairVars, levelVars, dirVars,
              tunVars, vaultVars, townVars, cavVars, mazeVars, gvVars,
              doorVars, memVars, lateVars>>

\* the blocks in the order of the two for loops, by outside and bx inside
BlockOrder(b1, b2) == b1[1] < b2[1] \/ (b1[1] = b2[1] /\ b1[2] < b2[2])

Untried == {b \in Blocks : ~blocks_tried[b]}

\* the j-th block (j from 1) that "if (blocks_tried[by][bx]) continue;"
\* lets through
UntriedAt(j) ==
    CHOOSE b \in Untried :
        Cardinality({a \in Untried : BlockOrder(a, b)}) = j - 1

\* what the one_in_(j) calls of one count give, j = 1 .. n: one_in_(1) is
\* always true; later ones all fail, or all succeed
OneInRolls(n) == {[j \in 1 .. n |-> j = 1], [j \in 1 .. n |-> TRUE]}

RECURSIVE PickedBlock(_, _, _)

\* the count without "if (blocks_tried[by][bx]) continue;": the last roll
\* decides between the first and the last block of the level
PickedBlockOfAll(j, n, rolls) ==
    IF rolls[n] THEN <<row_rooms - 1, col_rooms - 1>> ELSE <<0, 0>>

\* tby, tbx after the count: (0, 0) or the last block whose roll succeeded
PickedBlock(j, n, rolls) ==
    IF j = 0 THEN <<0, 0>>
    ELSE IF rolls[j] THEN UntriedAt(j)
    ELSE PickedBlock(j - 1, n, rolls)

\* "while (i == rarity && i < dun->profile->max_rarity)": the rarity after
\* the loop, hits[i + 1] being randint0(dun_unusual) < c->depth of round i
RECURSIVE rarity_loop(_, _, _)
rarity_loop(i, r, hits) ==
    IF i = r /\ i < MAX_RARITY
    THEN rarity_loop(i + 1, IF hits[i + 1] THEN r + 1 ELSE r, hits)
    ELSE r

\* a profile that is tried whatever the key is
profile_skipped_by_rarity(profile, r, k) == profile.rarity > r

\* if (profile.rarity > rarity) continue; if (profile.cutoff <= key) continue;
profile_skipped(profile, r, k) == profile.rarity > r \/ profile.cutoff <= k

\* c->depth of the levels followed: no profile but the plain rooms is deep
\* enough, or every profile is
PlaceDepths == {1, 10}

PlaceInit ==
    /\ c_depth \in PlaceDepths
    /\ room_map = [b \in Blocks |-> FALSE]
    /\ crowded = FALSE
    /\ cent_n = 0
    /\ reserved_cnt = [b \in Blocks |-> 0]
    /\ crowded_built = 0
    /\ last_call = [op |-> "default_gen"]
    /\ pl_pc = "rooms"
    /\ blocks_tried = [b \in Blocks |-> FALSE]
    /\ built = 0
    /\ \E p \in SizePercents : num_rooms = (DunRooms * p) \div 100
    /\ pl_b = <<0, 0>>
    /\ pl_key = 0
    /\ pl_rarity = 0
    /\ pl_i = 0
    /\ pl_iter = 0
    /\ pl_calls = <<>>

\* one round of while (built < num_rooms) up to the loop over the profiles
PlacePick ==
    /\ pl_pc = "rooms"
    /\ built < num_rooms
    /\ Untried # {}
    /\ LET j == Cardinality(Untried)
       IN \E rolls \in OneInRolls(j) :
            LET b == PickedBlock(j, j, rolls)
            IN /\ pl_b' = b
               /\ IF blocks_tried[b]
                    THEN /\ pl_pc' = "quit"
                         /\ UNCHANGED <<blocks_tried, pl_key, pl_rarity>>
                    ELSE /\ pl_pc' = "profiles"
                         /\ blocks_tried' = [blocks_tried EXCEPT ![b] = TRUE]
                         /\ pl_key' \in KeyRolls
                         /\ \E hits \in [1 .. MAX_RARITY -> BOOLEAN] :
                               pl_rarity' = rarity_loop(0, 0, hits)
    /\ pl_i' = 0
    /\ pl_iter' = pl_iter + 1
    /\ pl_calls' = <<>>
    /\ UNCHANGED <<built, num_rooms>>
    /\ UNCHANGED roomVars
    /\ UNCHANGED notPlace

\* the loop over the profiles from i on: the first profile that is not
\* passed over by a continue, or n_room_profiles
RECURSIVE NextProfile(_)
NextProfile(i) ==
    IF i >= Len(default_rooms) THEN Len(default_rooms)
    ELSE IF profile_skipped(default_rooms[i + 1], pl_rarity, pl_key)
    THEN NextProfile(i + 1)
    ELSE i

\* for (i = 0; i < dun->profile->n_room_profiles; i++), up to and with the
\* next room_build call
PlaceProfile ==
    /\ pl_pc = "profiles"
    /\ NextProfile(pl_i) < Len(default_rooms)
    /\ LET i == NextProfile(pl_i)
           profile == default_rooms[i + 1]
       IN \/ /\ \/ RoomBuildRefusedCore(pl_b[1], pl_b[2], profile)
                \/ RoomBuildFailedCore(pl_b[1], pl_b[2], profile)
             /\ pl_i' = i + 1
             /\ pl_calls' = Append(pl_calls, [i |-> i, result |-> FALSE])
             /\ UNCHANGED <<pl_pc, built>>
          \/ /\ RoomBuildDoneCore(pl_b[1], pl_b[2], profile)
             /\ built' = built + 1
             /\ pl_calls' = Append(pl_calls, [i |-> i, result |-> TRUE])
             /\ pl_pc' = "rooms"
             /\ pl_i' = i
    /\ UNCHANGED <<blocks_tried, num_rooms, pl_b, pl_key, pl_rarity, pl_iter>>
    /\ UNCHANGED notPlace

\* the loop over the profiles runs out: no profile built a room here
PlaceProfilesEnd ==
    /\ pl_pc = "profiles"
    /\ NextProfile(pl_i) = Len(default_rooms)
    /\ pl_i' = Len(default_rooms)
    /\ pl_pc' = "rooms"
    /\ UNCHANGED <<blocks_tried, built, num_rooms, pl_b, pl_key, pl_rarity,
                   pl_iter, pl_calls>>
    /\ UNCHANGED roomVars
    /\ UNCHANGED notPlace

\* built reached num_rooms, or "if (j == 0) break;"
PlaceEnd ==
    /\ pl_pc = "rooms"
    /\ built >= num_rooms \/ Untried = {}
    /\ pl_pc' = "done"
    /\ UNCHANGED <<blocks_tried, built, num_rooms, pl_b, pl_key, pl_rarity,
                   pl_i, pl_iter, pl_calls>>
    /\ UNCHANGED roomVars
    /\ UNCHANGED notPlace

NextPlace ==
    \/ PlacePick
    \/ PlaceProfile
    \/ PlaceProfilesEnd
    \/ PlaceEnd

InitPlace ==
    /\ PlaceInit /\ DoorIdle /\ MemIdle /\ LateIdle /\ GenIdle /\ CaveIdle /\ BuildIdle
    /\ RepairIdle /\ LevelIdle /\ DirIdle /\ TunIdle /\ VaultIdle
    /\ TownIdle /\ CavIdle /\ MazeIdle /\ GvIdle

SpecPlace == InitPlace /\ [][NextPlace]_vars

-----------------------------------------------------------------------------
(* Claims about the room loop of default_gen                               *)

\* the profiles of the table that the key and the rarity of this round let
\* through, as indices from 0 in table order
Matching ==
    {i \in 0 .. Len(default_rooms) - 1 :
        /\ default_rooms[i + 1].rarity <= pl_rarity
        /\ default_rooms[i + 1].cutoff > pl_key}

FirstMatching == CHOOSE i \in Matching : \A k \in Matching : i <= k

\* the round of the block pl_b is over
RoundOver == pl_pc \in {"rooms", "done"} /\ pl_iter > 0

PlaceRank ==
    IF pl_pc \in {"done", "quit"} THEN 0
    ELSE 1 + Cardinality(Untried) * (Len(default_rooms) + 2)
           + (IF pl_pc = "profiles" THEN 1 + Len(default_rooms) - pl_i ELSE 0)

LoopOver == built >= num_rooms \/ Untried = {}

\* C26: the room loop of default_gen ends after at most row_rooms x
\* col_rooms rounds (every step takes the measure PlaceRank down); every
\* round selects a block that was not tried before, so that quit_fmt
\* ("generation: inconsistent blocks") is never called, and marks it tried
\* whether or not a room is built there; the loop ends exactly when built
\* has reached num_rooms or no untried block is left.
C26_RoomLoopTerminates ==
    /\ [](/\ pl_iter <= row_rooms * col_rooms
          /\ pl_pc # "quit"
          /\ pl_iter = Cardinality(Blocks \ Untried)
          /\ pl_pc = "done" => LoopOver)
    /\ [][/\ PlaceRank' < PlaceRank
          /\ pl_iter' # pl_iter =>
                /\ ~LoopOver
                /\ pl_iter' = pl_iter + 1
                /\ ~blocks_tried[pl_b']
                /\ blocks_tried'[pl_b']
          /\ \A b \in Blocks : blocks_tried[b] => blocks_tried'[b]
          /\ pl_pc = "rooms" /\ LoopOver => pl_pc' = "done"]_vars

\* the loop has ended with every block tried and fewer rooms than asked for
C26_Witness ==
    /\ pl_pc = "done"
    /\ Untried = {}
    /\ pl_iter = row_rooms * col_rooms
    /\ built >= 1
    /\ built < num_rooms

-----------------------------------------------------------------------------
(* The scratch buffers: C_ZNEW and FREE in cave_generate and its builders  *)

\* the attempts of cave_generate that are followed (100 in the code)
MemTries == 2

\* the tries of cavern_gen that are followed (MAX_CAVERN_TRIES in the code)
MemCavernTries == 2

\* c->depth: the town, a level too shallow for a labyrinth and a cavern, a
\* level deep enough for both, and a quest level
MemDepths == {0, 1, 15, 99}

\* perc: the cavern profile (cutoff 10) is tried, or passed over
MemPercs == {10, 11}

\* times = rand_range(3, 6)
MemTimes == {3, 6}

LocalBuffers == {"sets", "walls", "colors", "counts", "temp", "deleted"}
Buffers == LocalBuffers \cup {"cave_squares"}

notMem == <<genVars, roomVars, caveVars, buildVars, repairVars, levelVars,
            dirVars, tunVars, vaultVars, townVars, cavVars, mazeVars, gvVars,
            doorVars, placeVars, lateVars>>

\* is_quest: the levels 99 and 100
is_quest(d) == d \in {99, 100}

\* C_ZNEW: the pointer b gets a new buffer
ZNEW(h, b) ==
    [live |-> h.live \cup {b},
     acquired |-> [h.acquired EXCEPT ![b] = @ + 1],
     released |-> h.released,
     misuse |-> IF b \in h.live THEN h.misuse \cup {<<"lost", b>>}
                ELSE h.misuse]

\* FREE: the buffer of the pointer b is given back
FREE(h, b) ==
    [live |-> h.live \ {b},
     acquired |-> h.acquired,
     released |-> [h.released EXCEPT ![b] = @ + 1],
     misuse |-> IF b \notin h.live THEN h.misuse \cup {<<"freed twice", b>>}
                ELSE h.misuse]

\* a read or a write through the pointer b
Deref(h, b) ==
    [h EXCEPT !.misuse = IF b \notin h.live
                         THEN h.misuse \cup {<<"used after free", b>>}
                         ELSE h.misuse]

alloc_cave_squares(h) == Deref(ZNEW(h, "cave_squares"), "cave_squares")

\* if (cave_squares != NULL) FREE(cave_squares); cave_squares = NULL;
free_cave_squares(h) ==
    IF "cave_squares" \in h.live THEN FREE(h, "cave_squares") ELSE h

\* set_cave_dimensions that does not free the old array
set_cave_dimensions_keeps(h) == alloc_cave_squares(h)

set_cave_dimensions(h) == alloc_cave_squares(free_cave_squares(h))

\* cave_find, find_empty: the array of the positions is shuffled
cave_find(h) == Deref(h, "cave_squares")

mutate_cavern(h) == FREE(Deref(ZNEW(h, "temp"), "temp"), "temp")

RECURSIVE mutate_cavern_times(_, _)
mutate_cavern_times(h, n) ==
    IF n = 0 THEN h ELSE mutate_cavern_times(mutate_cavern(h), n - 1)

\* clear_small_regions with its three arrays
mem_clear_small_regions(h) ==
    FREE(Deref(Deref(Deref(ZNEW(h, "deleted"), "deleted"), "counts"), "colors"),
         "deleted")

MemInit ==
    /\ mem_pc = "loop"
    /\ mem_depth \in MemDepths
    /\ mem_perc = 0
    /\ mem_tries = 0
    /\ mem_error = TRUE
    /\ mem_times = 0
    /\ mem_cv = 0
    \* static int *cave_squares = NULL, or what the last cave_generate left
    /\ heap = [live |-> {}, acquired |-> [b \in Buffers |-> 0],
               released |-> [b \in Buffers |-> 0], misuse |-> {}]

\* for (tries = 0; tries < 100 && error; tries++), up to the builder
MemAttempt ==
    /\ mem_pc = "loop"
    /\ mem_tries < MemTries /\ mem_error
    /\ mem_error' = FALSE
    /\ IF mem_depth = 0
         THEN mem_pc' = "town" /\ UNCHANGED mem_perc
         \* "if (i < last && profile->cutoff < perc) continue;": the cutoff
         \* 100 of the labyrinth is never below perc
         ELSE mem_pc' = "labyrinth" /\ mem_perc' \in MemPercs
    /\ UNCHANGED <<mem_depth, mem_tries, mem_times, mem_cv, heap>>
    /\ UNCHANGED notMem

\* town_gen
MemTown ==
    /\ mem_pc = "town"
    /\ heap' = set_cave_dimensions(heap)
    /\ mem_pc' = "post"
    /\ UNCHANGED <<mem_depth, mem_perc, mem_tries, mem_error, mem_times,
                   mem_cv>>
    /\ UNCHANGED notMem

\* labyrinth_gen returns FALSE before it allocates
MemLabyrinthRefuses ==
    /\ mem_pc = "labyrinth"
    \* below 13, on a quest level, or randint0(100) >= chance
    /\ mem_pc' = IF 10 < mem_perc THEN "default" ELSE "cavern"
    /\ UNCHANGED <<mem_depth, mem_perc, mem_tries, mem_error, mem_times,
                   mem_cv, heap>>
    /\ UNCHANGED notMem

\* labyrinth_gen from its allocations to "Deallocate our lists"
MemLabyrinthBuilds ==
    /\ mem_pc = "labyrinth"
    /\ mem_depth >= 13
    /\ ~is_quest(mem_depth)
    /\ heap' = cave_find(Deref(Deref(set_cave_dimensions(
                  ZNEW(ZNEW(heap, "sets"), "walls")), "sets"), "walls"))
    /\ mem_pc' = "labyrinth_free"
    /\ UNCHANGED <<mem_depth, mem_perc, mem_tries, mem_error, mem_times,
                   mem_cv>>
    /\ UNCHANGED notMem

\* FREE(sets); FREE(walls); return TRUE;
MemLabyrinthFrees ==
    /\ mem_pc = "labyrinth_free"
    /\ heap' = FREE(FREE(heap, "sets"), "walls")
    /\ mem_pc' = "post"
    /\ UNCHANGED <<mem_depth, mem_perc, mem_tries, mem_error, mem_times,
                   mem_cv>>
    /\ UNCHANGED notMem

\* cavern_gen up to its loop
MemCavernEnter ==
    /\ mem_pc = "cavern"
    /\ mem_times' \in MemTimes
    /\ heap' = LET h == set_cave_dimensions(ZNEW(ZNEW(heap, "colors"),
                                                 "counts"))
               IN IF mem_depth < 15 THEN h
                  \* array_filler(colors, 0, size), array_filler(counts, ...)
                  ELSE Deref(Deref(h, "colors"), "counts")
    /\ mem_cv' = 0
    /\ mem_pc' = IF mem_depth < 15 THEN "cavern_free" ELSE "cavern_try"
    /\ UNCHANGED <<mem_depth, mem_perc, mem_tries, mem_error>>
    /\ UNCHANGED notMem

\* one round of for (tries = 0; tries < MAX_CAVERN_TRIES; tries++)
MemCavernTry ==
    /\ mem_pc = "cavern_try"
    /\ mem_cv < MemCavernTries
    /\ heap' = mutate_cavern_times(heap, mem_times)
    \* "if (openc >= limit) break;"
    /\ \/ mem_pc' = "cavern_ok" /\ UNCHANGED mem_cv
       \/ mem_pc' = "cavern_try" /\ mem_cv' = mem_cv + 1
    /\ UNCHANGED <<mem_depth, mem_perc, mem_tries, mem_error, mem_times>>
    /\ UNCHANGED notMem

\* if (tries == MAX_CAVERN_TRIES) ok = FALSE;
MemCavernFails ==
    /\ mem_pc = "cavern_try"
    /\ mem_cv = MemCavernTries
    /\ mem_pc' = "cavern_free"
    /\ UNCHANGED <<mem_depth, mem_perc, mem_tries, mem_error, mem_times,
                   mem_cv, heap>>
    /\ UNCHANGED notMem

\* if (ok) { build_colors, clear_small_regions, join_regions, alloc_stairs,
\* ... }
MemCavernOk ==
    /\ mem_pc = "cavern_ok"
    /\ heap' = cave_find(Deref(Deref(mem_clear_small_regions(
                  Deref(Deref(heap, "colors"), "counts")), "colors"), "counts"))
    /\ mem_pc' = "cavern_free"
    /\ UNCHANGED <<mem_depth, mem_perc, mem_tries, mem_error, mem_times,
                   mem_cv>>
    /\ UNCHANGED notMem

\* FREE(colors); FREE(counts); return ok;
MemCavernFrees ==
    /\ mem_pc = "cavern_free"
    /\ heap' = FREE(FREE(heap, "colors"), "counts")
    /\ mem_pc' = IF mem_depth < 15 \/ mem_cv = MemCavernTries THEN "default"
                 ELSE "post"
    /\ UNCHANGED <<mem_depth, mem_perc, mem_tries, mem_error, mem_times,
                   mem_cv>>
    /\ UNCHANGED notMem

\* default_gen
MemDefault ==
    /\ mem_pc = "default"
    /\ heap' = cave_find(set_cave_dimensions(heap))
    /\ mem_pc' = "post"
    /\ UNCHANGED <<mem_depth, mem_perc, mem_tries, mem_error, mem_times,
                   mem_cv>>
    /\ UNCHANGED notMem

\* "Ensure quest monsters" and "Regenerate levels that overflow their
\* maxima", and tries++
MemPost ==
    /\ mem_pc = "post"
    /\ heap' = IF is_quest(mem_depth) THEN cave_find(heap) ELSE heap
    /\ mem_error' \in BOOLEAN
    /\ mem_tries' = mem_tries + 1
    /\ mem_pc' = "loop"
    /\ UNCHANGED <<mem_depth, mem_perc, mem_times, mem_cv>>
    /\ UNCHANGED notMem

\* free_cave_squares(); if (error) quit_fmt(...); ...
MemLeave ==
    /\ mem_pc = "loop"
    /\ ~(mem_tries < MemTries /\ mem_error)
    /\ heap' = free_cave_squares(heap)
    /\ mem_pc' = IF mem_error THEN "quit" ELSE "returned"
    /\ UNCHANGED <<mem_depth, mem_perc, mem_tries, mem_error, mem_times,
                   mem_cv>>
    /\ UNCHANGED notMem

NextMem ==
    \/ MemAttempt
    \/ MemTown
    \/ MemLabyrinthRefuses
    \/ MemLabyrinthBuilds
    \/ MemLabyrinthFrees
    \/ MemCavernEnter
    \/ MemCavernTry
    \/ MemCavernFails
    \/ MemCavernOk
    \/ MemCavernFrees
    \/ MemDefault
    \/ MemPost
    \/ MemLeave

InitMem ==
    /\ MemInit /\ DoorIdle /\ PlaceIdle /\ LateIdle /\ GenIdle /\ RoomIdle /\ CaveIdle
    /\ BuildIdle /\ RepairIdle /\ LevelIdle /\ DirIdle /\ TunIdle
    /\ VaultIdle /\ TownIdle /\ CavIdle /\ MazeIdle /\ GvIdle

SpecMem == InitMem /\ [][NextMem]_vars

-----------------------------------------------------------------------------
(* Claims about the scratch buffers                                        *)

\* C23: every buffer acquired during generation (sets and walls of the
\* labyrinth, colors and counts of the cavern, temp of mutate_cavern, deleted
\* of clear_small_regions, cave_squares) is released exactly once: no buffer
\* is lost, freed twice or used after its release; the buffers of a function
\* are live only inside that function, on its failure returns too; and
\* nothing is live, cave_squares being NULL, when cave_generate returns or
\* aborts.
C23_BuffersReleasedOnce ==
    /\ heap.misuse = {}
    /\ \A b \in Buffers :
          heap.acquired[b] =
             heap.released[b] + (IF b \in heap.live THEN 1 ELSE 0)
    /\ heap.live \cap {"sets", "walls"} # {} => mem_pc = "labyrinth_free"
    /\ heap.live \cap {"colors", "counts"} # {} =>
          mem_pc \in {"cavern_try", "cavern_ok", "cavern_free"}
    /\ heap.live \cap {"temp", "deleted"} = {}
    /\ mem_pc \in {"quit", "returned"} => heap.live = {}

\* cave_generate aborts after a labyrinth and a cavern were built and
\* thrown away: every kind of buffer has been acquired
C23_Witness ==
    /\ mem_pc = "quit"
    /\ \A b \in Buffers : heap.acquired[b] >= 1
    /\ heap.acquired["cave_squares"] >= 2

-----------------------------------------------------------------------------
(* build_tunnel on a level without walls around it: the loop that rolls    *)
(* the direction again while the next cell is off the level                *)

\* the features the level is filled with: granite, floor, permanent rock
BoreFills == {FEAT_WALL_EXTRA, FEAT_FLOOR, FEAT_PERM_SOLID}

\* <<row1, col1>> and <<row2, col2>> of the call: from a corner into the
\* level, and along the edge to a corner
BoreEnds ==
    {<<<<0, 0>>, <<2, 1>>>>,
     <<<<0, 2>>, <<0, 0>>>>}

\* the directions the rolls of the rounds give: one direction all the time,
\* or up and then left
BoreTurns ==
    {[i \in 1 .. TurnsLen |-> d] : d \in rand_dir}
       \cup {[i \in 1 .. TurnsLen |-> IF i = 1 THEN <<-1, 0>> ELSE <<0, -1>>]}

BoreInit ==
    /\ \E f \in BoreFills :
          feat = [y \in ArrayRows |-> [x \in ArrayCols |-> f]]
    /\ info = [y \in ArrayRows |-> [x \in ArrayCols |-> {}]]
    /\ c_height = ARRAY_HGT
    /\ c_width = ARRAY_WID
    /\ \E e \in BoreEnds : cent = <<e[1]>> /\ prev_yx = e[2]
    /\ t_pc = "connect"
    /\ cent_i = 0
    /\ row1 = 0 /\ col1 = 0 /\ row2 = 0 /\ col2 = 0
    /\ row_dir = 0 /\ col_dir = 0 /\ start_row = 0 /\ start_col = 0
    /\ main_loop_count = 0 /\ door_flag = FALSE
    /\ tunn = <<>> /\ wall = <<>> /\ door = <<>> /\ pierced = {}
    /\ turns \in BoreTurns

\* one round of the loop up to "while (!cave_in_bounds(c, tmp_row,
\* tmp_col))", and to its end when the next cell is on the level
BoreStep ==
    /\ t_pc = "loop"
    /\ row1 # row2 \/ col1 # col2
    /\ main_loop_count <= MAIN_LOOP_MAX
    /\ main_loop_count' = main_loop_count + 1
    /\ turns' = Tail(turns) \o <<Head(turns)>>
    /\ LET d == Head(turns)
       IN IF cave_in_bounds(<<row1 + d[1], col1 + d[2]>>)
          THEN TunnelBody(d)
          ELSE /\ t_pc' = "reroll"
               /\ row_dir' = d[1]
               /\ col_dir' = d[2]
               /\ UNCHANGED <<feat, row1, col1, door_flag, tunn, wall, door,
                              pierced>>
    /\ UNCHANGED <<cent_i, prev_yx, row2, col2, start_row, start_col>>
    /\ UNCHANGED notTunnels

\* one round of the inner loop with the direction d
BoreRerolled(d) ==
    /\ t_pc = "reroll"
    /\ IF cave_in_bounds(<<row1 + d[1], col1 + d[2]>>)
       THEN TunnelBody(d)
       ELSE /\ t_pc' = "reroll"
            /\ row_dir' = d[1]
            /\ col_dir' = d[2]
            /\ UNCHANGED <<feat, row1, col1, door_flag, tunn, wall, door,
                           pierced>>
    /\ UNCHANGED <<cent_i, prev_yx, row2, col2, start_row, start_col,
                   main_loop_count, turns>>
    /\ UNCHANGED notTunnels

\* correct_dir, and randint0(100) < tun.rnd fails
BoreRerollCorrect ==
    \E d \in correct_dir(row1, col1, row2, col2) : BoreRerolled(d)

\* correct_dir, and then rand_dir
BoreRerollRandom == \E d \in rand_dir : BoreRerolled(d)

NextBore ==
    \/ BuildTunnelBegin
    \/ BoreStep
    \/ BoreRerollCorrect
    \/ BoreRerollRandom
    \/ TunnelLoopEnd
    \/ TunnelFloors
    \/ TunnelsDone

InitBore ==
    /\ BoreInit /\ MoreIdle /\ GenIdle /\ RoomIdle /\ BuildIdle /\ RepairIdle
    /\ LevelIdle /\ DirIdle /\ VaultIdle /\ TownIdle /\ CavIdle
    /\ MazeIdle /\ GvIdle

\* the random rolls are fair: the roll for a random direction fails again
\* and again
SpecBore ==
    /\ InitBore /\ [][NextBore]_vars
    /\ WF_vars(NextBore)
    /\ WF_vars(BoreRerollCorrect)

-----------------------------------------------------------------------------
(* Claims about the end of build_tunnel                                    *)

InTunnelLoop == t_pc \in {"loop", "reroll"}

-----------------------------------------------------------------------------
(* alloc_objects and alloc_object with the searches counted                *)

\* alloc_object: "while (tries < 2000)", "if (tries == 2000) return FALSE;"
\* with the number of searches scaled down
ALLOC_TRIES == 3

AllocSets == {SET_CORR, SET_ROOM, SET_BOTH}

AllocNums == {1, 2}

notAlloc == <<genVars, roomVars, buildVars, repairVars, levelVars, dirVars,
              tunVars, vaultVars, townVars, cavVars, mazeVars, gvVars,
              doorVars, placeVars, memVars, pitVars, c_height, c_width,
              info>>

\* alloc_objects(c, set, TYP_RUBBLE, num, depth, origin) is called on a
\* level whose layout is finished
AllocInit ==
    /\ \E in \in DefaultInputs(DefaultLevels) :
       \E cells \in {BuiltFirst(in)} :
          /\ c_height = in.h
          /\ c_width = in.w
          /\ feat = FeatOf(cells)
          /\ info = InfoOf(cells)
    /\ ao_pc = "call"
    /\ ao_set \in AllocSets
    /\ ao_num \in AllocNums
    /\ ao_k = 0 /\ ao_l = 0 /\ ao_tries = 0 /\ ao_yx = <<>> /\ ao_log = <<>>

\* alloc_objects: "for (k = 0; k < num; k++)", alloc_object is entered
AllocObjectEnter ==
    /\ ao_pc = "call"
    /\ ao_k < ao_num
    /\ ao_tries' = 0
    /\ ao_yx' = <<>>
    /\ ao_pc' = "search"
    /\ UNCHANGED <<feat, ao_set, ao_num, ao_k, ao_l, ao_log>>
    /\ UNCHANGED notAlloc

\* alloc_object: the loop goes on after a search: no break, and
\* "while (tries < 2000)" holds
alloc_loop_goes_on(n, fits) == ~fits /\ n < ALLOC_TRIES

\* alloc_object: one round of the loop; find_empty comes up with an empty
\* cell e
AllocObjectSearch ==
    /\ ao_pc = "search"
    /\ \E e \in EmptyCells :
          /\ ao_yx' = e
          /\ ao_pc' = IF alloc_loop_goes_on(ao_tries + 1,
                                            SetAllows(ao_set, e))
                      THEN "search" ELSE "after"
    /\ ao_tries' = ao_tries + 1
    /\ UNCHANGED <<feat, ao_set, ao_num, ao_k, ao_l, ao_log>>
    /\ UNCHANGED notAlloc

\* what alloc_object did: its result, the cell of its last search,
\* whether that cell fits the set, the number of searches, and whether the
\* level has changed
AllocRecord(ret, f) ==
    [ret |-> ret, cell |-> ao_yx, fits |-> SetAllows(ao_set, ao_yx),
     tries |-> ao_tries, placed |-> f # feat]

\* alloc_object: "if (tries == 2000) return FALSE;"; alloc_objects counts
\* the failure in l
AllocObjectGivesUp ==
    /\ ao_pc = "after"
    /\ ao_tries = ALLOC_TRIES
    /\ ao_l' = ao_l + 1
    /\ ao_k' = ao_k + 1
    /\ ao_log' = Append(ao_log, AllocRecord(FALSE, feat))
    /\ ao_pc' = "call"
    /\ UNCHANGED <<feat, ao_set, ao_num, ao_tries, ao_yx>>
    /\ UNCHANGED notAlloc

\* alloc_object: "Place something", return TRUE
AllocObjectPlaces ==
    /\ ao_pc = "after"
    /\ ao_tries # ALLOC_TRIES
    /\ feat' = SetFeat(ao_yx, place_rubble)
    /\ ao_k' = ao_k + 1
    /\ ao_log' = Append(ao_log, AllocRecord(TRUE, feat'))
    /\ ao_pc' = "call"
    /\ UNCHANGED <<ao_set, ao_num, ao_l, ao_tries, ao_yx>>
    /\ UNCHANGED notAlloc

\* alloc_objects returns
AllocObjectsEnd ==
    /\ ao_pc = "call"
    /\ ao_k = ao_num
    /\ ao_pc' = "done"
    /\ UNCHANGED <<feat, ao_set, ao_num, ao_k, ao_l, ao_tries, ao_yx, ao_log>>
    /\ UNCHANGED notAlloc

NextAlloc ==
    \/ AllocObjectEnter
    \/ AllocObjectSearch
    \/ AllocObjectGivesUp
    \/ AllocObjectPlaces
    \/ AllocObjectsEnd

InitAlloc ==
    /\ AllocInit /\ DoorIdle /\ PlaceIdle /\ MemIdle /\ PitIdle /\ GenIdle /\ RoomIdle
    /\ BuildIdle /\ RepairIdle /\ LevelIdle /\ DirIdle /\ TunIdle
    /\ VaultIdle /\ TownIdle /\ CavIdle /\ MazeIdle /\ GvIdle

SpecAlloc == InitAlloc /\ [][NextAlloc]_vars

(* C30: alloc_object returns TRUE and places its item exactly when one of  *)
(* its searches, of which there are ALLOC_TRIES at most, comes up with an  *)
(* empty cell that fits the set, the last search included; when it        *)
(* returns FALSE nothing is placed.                                        *)
C30_PlacesIffSearchFits ==
    \A i \in 1 .. Len(ao_log) :
       /\ ao_log[i].tries <= ALLOC_TRIES
       /\ ao_log[i].ret <=> ao_log[i].fits
       /\ ao_log[i].placed <=> ao_log[i].ret

\* what holds of the code: a fit of the last search is thrown away
C30_LastSearchLost ==
    \A i \in 1 .. Len(ao_log) :
       /\ ao_log[i].tries <= ALLOC_TRIES
       /\ ao_log[i].ret <=> (ao_log[i].fits /\ ao_log[i].tries < ALLOC_TRIES)
       /\ ao_log[i].placed <=> ao_log[i].ret

\* the last search found a cell that fits and alloc_object returned FALSE
C30_Witness ==
    /\ ao_pc = "done"
    /\ \E i \in 1 .. Len(ao_log) :
          /\ ao_log[i].fits
          /\ ao_log[i].tries = ALLOC_TRIES
          /\ ~ao_log[i].ret

-----------------------------------------------------------------------------
(* set_pit_type, and the monsters of build_pit and build_nest              *)

\* build_pit: "int what[16]", build_nest: "s16b what[64]"
PIT_WHAT == 16
NEST_WHAT == 64

\* set_pit_type: "int pit_dist = 999;"
PIT_DIST_LARGE == 999

\* set_pit_type(c->depth, 1) in build_pit, set_pit_type(c->depth, 2) in
\* build_nest
TYPE_PIT == 1
TYPE_NEST == 2

\* r_info[r].level of the races 1 .. 6 the tables are driven with
RaceLevels == <<1, 3, 3, 5, 8, 8>>

r_level(r) == RaceLevels[r]

\* what get_mon_num fills what[] with: races, and 0 where it fails
Sampled(n) ==
    {[i \in 1 .. n |-> ((a * i + b) % Len(RaceLevels)) + 1] :
        a \in {1, 5}, b \in {0, 3}}
    \cup {[i \in 1 .. n |-> ((i * i) % Len(RaceLevels)) + 1]}
    \cup {[i \in 1 .. n |->
             IF i = n - 2 THEN 0 ELSE (i % Len(RaceLevels)) + 1]}

NoPit == [name |-> FALSE, room_type |-> 0, ave |-> 0, rarity |-> 0]

PitOf(type, ave, rarity) ==
    [name |-> TRUE, room_type |-> type, ave |-> ave, rarity |-> rarity]

\* the tables of pit.txt the scan is driven with; pit_info[i] of the code
\* is the entry i + 1 of a table
PitTables ==
    {<<NoPit, PitOf(TYPE_PIT, 5, 1), PitOf(TYPE_PIT, 5, 1),
       PitOf(TYPE_NEST, 10, 2)>>,
     <<PitOf(TYPE_NEST, 10, 1), PitOf(TYPE_PIT, 20, 2),
       PitOf(TYPE_PIT, 5, 2)>>,
     <<PitOf(TYPE_PIT, 10, 1), PitOf(TYPE_NEST, 10, 1),
       PitOf(TYPE_PIT, 20, 1)>>}

PitDepths == {5, 20}

PitCentres == {<<6, 12>>}

\* Rand_normal(mean, stand): a value around the mean
Rand_normal(mean, stand) == {mean - stand, mean, mean + stand}

\* one_in_(x): TRUE with chance 1 / x
one_in_(x) == IF x <= 1 THEN {TRUE} ELSE BOOLEAN

ABS(a) == IF a < 0 THEN 0 - a ELSE a

notPit == <<genVars, roomVars, caveVars, buildVars, repairVars, levelVars,
            dirVars, tunVars, vaultVars, townVars, cavVars, mazeVars, gvVars,
            doorVars, placeVars, memVars, allocVars>>

\* build_pit or build_nest has drawn its room and calls
\* set_pit_type(c->depth, type): "int pit_idx = 0; int pit_dist = 999;"
PitInit ==
    /\ pt_pc = "scan"
    /\ pt_type \in {TYPE_PIT, TYPE_NEST}
    /\ pt_depth \in PitDepths
    /\ pt_centre \in PitCentres
    /\ pit_info \in PitTables
    /\ pt_i = 0
    /\ pit_idx = 0
    /\ pit_dist = PIT_DIST_LARGE
    /\ pit_type = "NULL"
    /\ get_mon_num_hook = "NULL"
    /\ pt_scan = <<>> /\ pt_sample = <<>> /\ what = <<>> /\ pt_mon = <<>>
    /\ pt_ret = "none"

\* a pit as far away as the closest so far is closer
pit_is_closer_or_tied(dist, best) == dist <= best

\* set_pit_type: "dist < pit_dist"
pit_is_closer(dist, best) == dist < best

ScanRecord(skipped, dist, roll) ==
    [i |-> pt_i, skipped |-> skipped, dist |-> dist, roll |-> roll]

\* set_pit_type: one round of "for (i = 0; i < z_info->pit_max; i++)"
PitScan ==
    /\ pt_pc = "scan"
    /\ pt_i < Len(pit_info)
    /\ LET pit == pit_info[pt_i + 1]
       IN IF ~pit.name \/ pit.room_type # pt_type
          THEN /\ pt_scan' = Append(pt_scan, ScanRecord(TRUE, 0, "none"))
               /\ UNCHANGED <<pit_idx, pit_dist>>
          ELSE \E offset \in Rand_normal(pit.ave, 10) :
               \E dist \in {ABS(offset - pt_depth)} :
                  IF pit_is_closer(dist, pit_dist)
                  THEN \E roll \in one_in_(pit.rarity) :
                          /\ pit_idx' = IF roll THEN pt_i ELSE pit_idx
                          /\ pit_dist' = IF roll THEN dist ELSE pit_dist
                          /\ pt_scan' = Append(pt_scan,
                                ScanRecord(FALSE, dist,
                                   IF roll THEN "passed" ELSE "failed"))
                  ELSE /\ pt_scan' = Append(pt_scan,
                                        ScanRecord(FALSE, dist, "none"))
                       /\ UNCHANGED <<pit_idx, pit_dist>>
    /\ pt_i' = pt_i + 1
    /\ UNCHANGED <<pt_pc, pt_type, pt_depth, pt_centre, pit_info, pit_type,
                   get_mon_num_hook, pt_sample, what, pt_mon, pt_ret>>
    /\ UNCHANGED notPit

\* set_pit_type: "pit_type = &pit_info[pit_idx];
\*                get_mon_num_hook = mon_pit_hook; return pit_idx;"
PitScanEnd ==
    /\ pt_pc = "scan"
    /\ pt_i = Len(pit_info)
    /\ pit_type' = pit_idx
    /\ get_mon_num_hook' = "mon_pit_hook"
    /\ pit_dist' = 0
    /\ pt_i' = 0
    /\ pt_pc' = "pick"
    /\ UNCHANGED <<pt_type, pt_depth, pt_centre, pit_info, pit_idx, pt_scan,
                   pt_sample, what, pt_mon, pt_ret>>
    /\ UNCHANGED notPit

\* build_pit, build_nest: the get_mon_num loop, "get_mon_num_hook = NULL",
\* "if (empty) return FALSE;"; build_nest goes on to place its monsters,
\* which are drawn cell by cell and leave no record here, and returns TRUE
PitPick ==
    /\ pt_pc = "pick"
    /\ \E w \in Sampled(IF pt_type = TYPE_PIT THEN PIT_WHAT ELSE NEST_WHAT) :
       \E empty \in {\E i \in DOMAIN w : w[i] = 0} :
          /\ what' = w
          /\ pt_sample' = w
          /\ pt_ret' = IF empty THEN FALSE
                       ELSE IF pt_type = TYPE_NEST THEN TRUE ELSE pt_ret
          /\ pt_pc' = IF empty \/ pt_type = TYPE_NEST THEN "done" ELSE "sort"
    /\ get_mon_num_hook' = "NULL"
    /\ pt_scan' = <<>>
    /\ UNCHANGED <<pt_type, pt_depth, pt_centre, pit_info, pt_i, pit_idx,
                   pit_dist, pit_type, pt_mon>>
    /\ UNCHANGED notPit

\* build_pit: "for (j = 0; j < 16 - 1; j++)", the bubble, from j on;
\* what[j] of the code is w[j + 1]
RECURSIVE BubbleFrom(_, _)
BubbleFrom(w, j) ==
    IF j >= PIT_WHAT - 1 THEN w
    ELSE LET p1 == r_level(w[j + 1])
             p2 == r_level(w[j + 2])
         IN BubbleFrom(IF p1 > p2
                       THEN [w EXCEPT ![j + 1] = w[j + 2], ![j + 2] = w[j + 1]]
                       ELSE w, j + 1)

\* build_pit: one round of "for (i = 0; i < 16 - 1; i++)"
PitSortPass ==
    /\ pt_pc = "sort"
    /\ pt_i < PIT_WHAT - 1
    /\ what' = BubbleFrom(what, 0)
    /\ pt_i' = pt_i + 1
    /\ UNCHANGED <<pt_pc, pt_type, pt_depth, pt_centre, pit_info, pit_idx,
                   pit_dist, pit_type, get_mon_num_hook, pt_scan, pt_sample,
                   pt_mon, pt_ret>>
    /\ UNCHANGED notPit

\* "for (i = 0; i < 8; i++) what[i] = what[i * 2];" from i on
RECURSIVE SelectFrom(_, _)
SelectFrom(w, i) ==
    IF i >= PIT_WHAT \div 2 THEN w
    ELSE SelectFrom([w EXCEPT ![i + 1] = w[i * 2 + 1]], i + 1)

\* the first eight entries as they are
select_every_entry(w) == w

\* build_pit: "Select every other entry"
select_every_other(w) == SelectFrom(w, 0)

\* place_new_monster(c, y0 + dy, x0 + dx, what[k], ...)
MonCall(w, dy, dx, k) ==
    [y |-> pt_centre[1] + dy, x |-> pt_centre[2] + dx, r_idx |-> w[k + 1]]

\* build_pit: "Top and bottom rows", for x0 + dx from x0 - 9 to x0 + 9
RECURSIVE TopBottomRows(_, _)
TopBottomRows(w, dx) ==
    IF dx > 9 THEN <<>>
    ELSE <<MonCall(w, -2, dx, 0), MonCall(w, 2, dx, 0)>>
            \o TopBottomRows(w, dx + 1)

\* build_pit: "Middle columns", for y0 + dy from y0 - 1 to y0 + 1
RECURSIVE MiddleColumns(_, _)
MiddleColumns(w, dy) ==
    IF dy > 1 THEN <<>>
    ELSE <<MonCall(w, dy, -9, 0), MonCall(w, dy, 9, 0),
           MonCall(w, dy, -8, 1), MonCall(w, dy, 8, 1),
           MonCall(w, dy, -7, 1), MonCall(w, dy, 7, 1),
           MonCall(w, dy, -6, 2), MonCall(w, dy, 6, 2),
           MonCall(w, dy, -5, 2), MonCall(w, dy, 5, 2),
           MonCall(w, dy, -4, 3), MonCall(w, dy, 4, 3),
           MonCall(w, dy, -3, 3), MonCall(w, dy, 3, 3),
           MonCall(w, dy, -2, 4), MonCall(w, dy, 2, 4)>>
            \o MiddleColumns(w, dy + 1)

\* build_pit: "Above/Below the center monster", for x0 + dx from x0 - 1
\* to x0 + 1
RECURSIVE AboveBelow(_, _)
AboveBelow(w, dx) ==
    IF dx > 1 THEN <<>>
    ELSE <<MonCall(w, 1, dx, 5), MonCall(w, -1, dx, 5)>>
            \o AboveBelow(w, dx + 1)

\* build_pit: "Next to the center monster", "Center monster"
CentreCalls(w) ==
    <<MonCall(w, 0, 1, 6), MonCall(w, 0, -1, 6), MonCall(w, 0, 0, 7)>>

\* build_pit: the place_new_monster calls in their order
PitMonsters(w) ==
    TopBottomRows(w, -9) \o MiddleColumns(w, -1) \o AboveBelow(w, -1)
       \o CentreCalls(w)

\* build_pit: the loops have sorted what[]; every other entry is selected,
\* the monsters are placed, return TRUE (the objects are not recorded)
PitPlace ==
    /\ pt_pc = "sort"
    /\ pt_i = PIT_WHAT - 1
    /\ what' = select_every_other(what)
    /\ pt_mon' = PitMonsters(what')
    /\ pt_ret' = TRUE
    /\ pt_pc' = "done"
    /\ UNCHANGED <<pt_type, pt_depth, pt_centre, pit_info, pt_i, pit_idx,
                   pit_dist, pit_type, get_mon_num_hook, pt_scan, pt_sample>>
    /\ UNCHANGED notPit

NextPit ==
    \/ PitScan
    \/ PitScanEnd
    \/ PitPick
    \/ PitSortPass
    \/ PitPlace

InitPit ==
    /\ PitInit /\ AllocIdle /\ DoorIdle /\ PlaceIdle /\ MemIdle /\ GenIdle
    /\ RoomIdle /\ CaveIdle /\ BuildIdle /\ RepairIdle /\ LevelIdle
    /\ DirIdle /\ TunIdle /\ VaultIdle /\ TownIdle /\ CavIdle /\ MazeIdle
    /\ GvIdle

SpecPit == InitPit /\ [][NextPit]_vars

-----------------------------------------------------------------------------
(* Claims on the pits                                                      *)

\* build_pit has returned TRUE
PitBuilt == pt_pc = "done" /\ pt_type = TYPE_PIT /\ pt_ret = TRUE

\* the k-th smallest level among the races of s, k from 1
KthLevel(s, k) ==
    CHOOSE v \in {r_level(s[i]) : i \in DOMAIN s} :
       /\ Cardinality({i \in DOMAIN s : r_level(s[i]) < v}) < k
       /\ Cardinality({i \in DOMAIN s : r_level(s[i]) <= v}) >= k

\* the inner room as the comment above build_pit draws it
PitDiagram ==
    <<<<0, 0, 0, 0, 0, 0, 0, 0, 0, 0, 0, 0, 0, 0, 0, 0, 0, 0, 0>>,
      <<0, 1, 1, 2, 2, 3, 3, 4, 5, 5, 5, 4, 3, 3, 2, 2, 1, 1, 0>>,
      <<0, 1, 1, 2, 2, 3, 3, 4, 6, 7, 6, 4, 3, 3, 2, 2, 1, 1, 0>>,
      <<0, 1, 1, 2, 2, 3, 3, 4, 5, 5, 5, 4, 3, 3, 2, 2, 1, 1, 0>>,
      <<0, 0, 0, 0, 0, 0, 0, 0, 0, 0, 0, 0, 0, 0, 0, 0, 0, 0, 0>>>>

\* the tier of the cell (y0 + dy, x0 + dx): the outer ring 0, the columns
\* 8 and 7 away 1, 6 and 5 away 2, 4 and 3 away 3, 2 away 4, above and
\* below the centre row within 1 of the centre 5, beside the centre 6,
\* the centre 7
TierOf(dy, dx) ==
    LET ay == ABS(dy)
        ax == ABS(dx)
    IN IF ay = 2 \/ ax = 9 THEN 0
       ELSE IF ax \in {8, 7} THEN 1
       ELSE IF ax \in {6, 5} THEN 2
       ELSE IF ax \in {4, 3} THEN 3
       ELSE IF ax = 2 THEN 4
       ELSE IF ay = 1 THEN 5
       ELSE IF ax = 1 THEN 6
       ELSE 7

\* the place_new_monster calls for the cell (y0 + dy, x0 + dx)
CallsAt(dy, dx) ==
    {i \in DOMAIN pt_mon : /\ pt_mon[i].y = pt_centre[1] + dy
                           /\ pt_mon[i].x = pt_centre[2] + dx}

(* C27: when build_pit has sampled 16 races, its 8 tiers are the 1st, 3rd, *)
(* ..., 15th of the 16 races in ascending order of level, so the levels of *)
(* the tiers do not fall from tier 0 to tier 7; and each of the 5 x 19     *)
(* cells inside gets exactly one place_new_monster call, with the race of  *)
(* the tier the diagram gives the cell: ring 0, then 1, 2, 3, 4 towards    *)
(* the middle, 5 above and below the centre, 6 beside it, 7 in the centre. *)
C27_PitTiersAndLayout ==
    PitBuilt =>
       /\ \A k \in 0 .. 7 :
             /\ \E i \in DOMAIN pt_sample : what[k + 1] = pt_sample[i]
             /\ r_level(what[k + 1]) = KthLevel(pt_sample, 2 * k + 1)
       /\ \A k \in 0 .. 6 : r_level(what[k + 1]) <= r_level(what[k + 2])
       /\ Len(pt_mon) = 5 * 19
       /\ \A dy \in -2 .. 2, dx \in -9 .. 9 :
             /\ Cardinality(CallsAt(dy, dx)) = 1
             /\ PitDiagram[dy + 3][dx + 10] = TierOf(dy, dx)
             /\ \A i \in CallsAt(dy, dx) :
                   pt_mon[i].r_idx = what[TierOf(dy, dx) + 1]

\* a pit is built from a sample whose races come in no order and whose
\* tiers differ in level
C27_Witness ==
    /\ PitBuilt
    /\ \E i \in 1 .. PIT_WHAT - 1 :
          r_level(pt_sample[i]) > r_level(pt_sample[i + 1])
    /\ r_level(what[1]) < r_level(what[8])
    /\ what[2] # pt_sample[2]

\* set_pit_type has returned
PitInstalled == pt_pc = "pick"

\* the pit of a record passes its roll: it was rolled for and won, or it
\* was not rolled for and its rarity leaves no roll to lose
PitPasses(rec) ==
    /\ ~rec.skipped
    /\ \/ rec.roll = "passed"
       \/ rec.roll = "none" /\ pit_info[rec.i + 1].rarity <= 1

Passing == {n \in DOMAIN pt_scan : PitPasses(pt_scan[n])}

\* the passing pits no other passing pit is closer than
Closest ==
    {n \in Passing : \A m \in Passing : pt_scan[n].dist <= pt_scan[m].dist}

(* C28 as stated: set_pit_type returns the pit of the requested kind with  *)
(* the smallest distance among the pits that pass their roll, and pit 0    *)
(* when two passing pits tie for the smallest distance or no pit passes.   *)
C28_TieGivesPitZero ==
    PitInstalled =>
       IF Cardinality(Closest) = 1
       THEN \A n \in Closest :
               /\ pit_idx = pt_scan[n].i
               /\ pit_info[pit_idx + 1].room_type = pt_type
       ELSE pit_idx = 0

(* C28, amended: set_pit_type returns the pit of the requested kind with   *)
(* the smallest distance among the pits that pass their roll; when passing *)
(* pits tie for the smallest distance it returns the first of them in the  *)
(* table, and when no pit passes it returns pit 0.                         *)
C28_TieGivesFirstPit ==
    PitInstalled =>
       IF Closest # {}
       THEN \E n \in Closest :
               /\ pit_idx = pt_scan[n].i
               /\ pit_info[pit_idx + 1].room_type = pt_type
               /\ \A m \in Closest : pt_scan[n].i <= pt_scan[m].i
       ELSE pit_idx = 0

\* two pits of the kind pass at the same distance and the first of them,
\* which is not pit 0, is returned
C28_Witness ==
    /\ PitInstalled
    /\ Cardinality(Closest) = 2
    /\ pit_idx # 0
    /\ \E n \in Closest : pit_idx = pt_scan[n].i

(* C29: the pit set_pit_type installs as the monster filter and returns is *)
(* a named pit of the requested kind, whatever the table and the rolls,    *)
(* and the hook is NULL again whenever build_pit or build_nest returns.    *)
C29_InstalledPitOfKind ==
    /\ PitInstalled =>
          /\ get_mon_num_hook = "mon_pit_hook"
          /\ pit_type = pit_idx
          /\ pit_info[pit_type + 1].name
          /\ pit_info[pit_type + 1].room_type = pt_type
    /\ pt_ret # "none" => get_mon_num_hook = "NULL"

=============================================================================
